---- MODULE Spec2Model ----
(***************************************************************************)
(* Script structuring engine of script-buddy                               *)
(* (CharacterRecognitionService.analyzeScriptText and its helpers).        *)
(*                                                                         *)
(* A text is a sequence of raw lines (rawText.split('\n')); a line is a    *)
(* sequence of one-character strings.  Positions in a line are 1-based in  *)
(* the operators below; lastIndex keeps JavaScript's 0-based value.        *)
(***************************************************************************)
EXTENDS Integers, Sequences, FiniteSets, TLC

VARIABLES
    rawLines,           \* lines: rawText.split('\n') of the running call
    pc,                 \* position inside analyzeScriptText
    fp,                 \* number of lines the first pass has consumed
    lastIndex,          \* lastIndex of the three /gm patterns
    characterMentions,  \* Map name -> count, as a sequence in insertion order
    characterMap,       \* Map name -> Character, as a sequence in insertion order
    script,             \* the Script under construction
    currentCharacterId, \* id of the current speaker, or NULL
    lineCounter,        \* number of Line ids handed out
    i,                  \* number of lines the second pass has consumed
    returned,           \* what the callers got back: <<[input, result]>>
    extractedText,      \* argument of detectScriptStructure, a sequence of characters
    detected,           \* what detectScriptStructure returned: <<result>>
    readerLines,        \* script.scenes[0].lines of ScriptReader: TRUE for a
                        \* Line whose characterId is userCharacterId
    currentLineIndex,   \* ScriptReader state (0-based)
    isPlaying,          \* ScriptReader state
    isSpeaking,         \* TtsService.isSpeaking
    queue,              \* TtsService.queue: the index of the line to read, which
                        \* is also the index its onDone closure has captured
    speech,             \* utterances handed to Speech.speak and not ended
    timers,             \* pending setTimeout callbacks, by captured index
    presses,            \* number of presses of the play/pause button
    crashed,            \* a render or effect has thrown
    parseRun,           \* the running call of parseScript: its locals and outcome
    requested,          \* speak calls made by a client of TtsService, in call
                        \* order: TRUE when the onDone given speaks again
    started,            \* requests whose text went to Speech.speak, in order
    completed,          \* requests whose onDone was invoked, in order
    extraction          \* the running call of extractTextFromPdf: its locals

engineVars == <<rawLines, pc, fp, lastIndex, characterMentions, characterMap,
                script, currentCharacterId, lineCounter, i, returned>>

detectVars == <<extractedText, detected>>

readerVars == <<readerLines, currentLineIndex, isPlaying, isSpeaking, queue,
                speech, timers, presses, crashed>>

parserVars == <<parseRun>>

clientVars == <<requested, started, completed>>

pdfVars == <<extraction>>

vars == <<engineVars, detectVars, readerVars, parserVars, clientVars, pdfVars>>

----------------------------------------------------------------------------
(* Bounds of the model.                                                    *)

MaxLines == 4

MaxCatalogLines == 5

MaxCalls == 3

MaxSpacingLines == 4

MaxTitleLines == 3

MaxUtteranceLines == 4

MaxCarriageLines == 3

MaxDetectLines == 5

MaxReaderLines == 3

MaxPresses == 3

MaxMarkerLines == 4

MaxAgreeLines == 4

MaxPrefixLines == 4

MaxBlankLines == 10

MaxParseLines == 4

MaxRequests == 4

MaxCallbackCalls == 2

MaxPdfItems == 3

----------------------------------------------------------------------------
(* Characters and strings.                                                 *)

NULL == "null"

UpperLetters ==
    <<"A","B","C","D","E","F","G","H","I","J","K","L","M",
      "N","O","P","Q","R","S","T","U","V","W","X","Y","Z">>

LowerLetters ==
    <<"a","b","c","d","e","f","g","h","i","j","k","l","m",
      "n","o","p","q","r","s","t","u","v","w","x","y","z">>

Range(s) == {s[k] : k \in 1..Len(s)}

UpperAZ == Range(UpperLetters)

LowerAZ == Range(LowerLetters)

Digits == {"0","1","2","3","4","5","6","7","8","9"}

\* \s of a JavaScript regular expression, and what String.trim removes
WhiteSpace == {" ", "\t", "\r", "\n"}

\* where ^ and $ of a /m pattern match inside a string
LineTerminators == {"\r", "\n"}

\* [A-Za-z\s]
NameClass == UpperAZ \cup LowerAZ \cup WhiteSpace

ToUpperChar(c) ==
    IF c \in LowerAZ
       THEN UpperLetters[CHOOSE k \in 1..26 : LowerLetters[k] = c]
    ELSE IF c = "é" THEN "É"
    ELSE IF c = "ì" THEN "Ì"
    ELSE c

toUpperCase(s) == [k \in 1..Len(s) |-> ToUpperChar(s[k])]

\* String.trim
trim(s) ==
    LET keep == {k \in 1..Len(s) : s[k] \notin WhiteSpace}
    IN  IF keep = {} THEN <<>>
        ELSE LET lo == CHOOSE k \in keep : \A m \in keep : k <= m
                 hi == CHOOSE k \in keep : \A m \in keep : k >= m
             IN  SubSeq(s, lo, hi)

startsWith(s, prefix) ==
    /\ Len(prefix) <= Len(s)
    /\ SubSeq(s, 1, Len(prefix)) = prefix

endsWith(s, suffix) ==
    /\ Len(suffix) <= Len(s)
    /\ SubSeq(s, Len(s) - Len(suffix) + 1, Len(s)) = suffix

\* String.substring(from) with a 0-based index
substring(s, from) == SubSeq(s, from + 1, Len(s))

includes(s, c) == c \in Range(s)

\* Array.join('\n'): the rawText the lines were split from
RECURSIVE JoinLines(_)
JoinLines(ls) ==
    IF Len(ls) = 0 THEN <<>>
    ELSE IF Len(ls) = 1 THEN ls[1]
    ELSE ls[1] \o <<"\n">> \o JoinLines(Tail(ls))

\* Number.toString for the small naturals used as ids
toString(n) == ToString(n)

----------------------------------------------------------------------------
(* The three speaker patterns (characterPatterns).                         *)

\* first position >= k whose character is outside class (Len+1 when none)
RunEnd(line, k, class) ==
    CHOOSE j \in k..(Len(line) + 1) :
        /\ (j = Len(line) + 1 \/ line[j] \notin class)
        /\ \A m \in k..(j - 1) : line[m] \in class

NoMatch == [ok |-> FALSE, cap |-> <<>>, end |-> 0]

\* /^([A-Z][A-Za-z\s]+):/ tried at position p
StandardAt(line, p) ==
    IF p > Len(line) \/ line[p] \notin UpperAZ THEN NoMatch
    ELSE LET e == RunEnd(line, p + 1, NameClass)
         IN  IF e - (p + 1) >= 1 /\ e <= Len(line) /\ line[e] = ":"
                THEN [ok |-> TRUE, cap |-> SubSeq(line, p, e - 1), end |-> e]
                ELSE NoMatch

\* /^([A-Z][A-Za-z\s]+)\s+\(/ tried at position p: the greedy group gives
\* its last whitespace character back to \s+
WithDirectionAt(line, p) ==
    IF p > Len(line) \/ line[p] \notin UpperAZ THEN NoMatch
    ELSE LET e == RunEnd(line, p + 1, NameClass)
         IN  IF /\ e <= Len(line)
                /\ line[e] = "("
                /\ e - 2 >= p + 1
                /\ line[e - 1] \in WhiteSpace
                THEN [ok |-> TRUE, cap |-> SubSeq(line, p, e - 2), end |-> e]
                ELSE NoMatch

\* /^\s*([A-Z]{2,})\s*$/ tried at position p: $ is the end of the string or
\* the place before a line terminator inside the trailing whitespace
IsolatedUpperAt(line, p) ==
    LET s == RunEnd(line, p, WhiteSpace)
        u == RunEnd(line, s, UpperAZ)
        w == RunEnd(line, u, WhiteSpace)
        terms == {k \in u..(w - 1) : line[k] \in LineTerminators}
    IN  IF u - s < 2 THEN NoMatch
        ELSE IF w = Len(line) + 1
            THEN [ok |-> TRUE, cap |-> SubSeq(line, s, u - 1), end |-> Len(line)]
        ELSE IF terms # {}
            THEN [ok |-> TRUE, cap |-> SubSeq(line, s, u - 1),
                  end |-> (CHOOSE k \in terms : \A m \in terms : k >= m) - 1]
        ELSE NoMatch

PatternIds == 1..3

PatternAt(pattern, line, p) ==
    CASE pattern = 1 -> StandardAt(line, p)
      [] pattern = 2 -> WithDirectionAt(line, p)
      [] pattern = 3 -> IsolatedUpperAt(line, p)

\* ^ of a /m pattern
AtLineStart(line, p) == p = 1 \/ line[p - 1] \in LineTerminators

\* RegExp.exec of a /g pattern: the search starts at lastIndex (0-based)
exec(pattern, line, from) ==
    LET starts == {p \in (from + 1)..(Len(line) + 1) :
                      AtLineStart(line, p) /\ PatternAt(pattern, line, p).ok}
    IN  IF starts = {} THEN NoMatch
        ELSE PatternAt(pattern, line, CHOOSE p \in starts : \A q \in starts : p <= q)

----------------------------------------------------------------------------
(* First pass: the tally of candidate names.                               *)

commonWords ==
    { <<"I","L">>, <<"L","O">>, <<"L","A">>, <<"I">>, <<"G","L","I">>,
      <<"L","E">>, <<"U","N">>, <<"U","N","A">>, <<"U","N","O">>,
      <<"E">>, <<"O">>, <<"M","A">>, <<"S","E">>,
      <<"P","E","R","C","H","É">>, <<"Q","U","I","N","D","I">>,
      <<"C","O","S","Ì">>, <<"A","L","L","O","R","A">>,
      <<"A","T","T","O">>, <<"S","C","E","N","A">>, <<"F","I","N","E">>,
      <<"I","N","I","Z","I","O">>, <<"S","I","P","A","R","I","O">>,
      <<"E","N","T","R","A">>, <<"E","S","C","E">> }

isCommonWord(word) == toUpperCase(word) \in commonWords

\* Map.get(name) || 0
MentionCount(mentions, name) ==
    IF \E k \in 1..Len(mentions) : mentions[k].name = name
       THEN mentions[CHOOSE k \in 1..Len(mentions) : mentions[k].name = name].count
       ELSE 0

\* Map.set(name, count): an existing key keeps its place, a new one goes last
MapSetCount(mentions, name, count) ==
    IF \E k \in 1..Len(mentions) : mentions[k].name = name
       THEN [k \in 1..Len(mentions) |->
                IF mentions[k].name = name
                   THEN [name |-> name, count |-> count]
                   ELSE mentions[k]]
       ELSE Append(mentions, [name |-> name, count |-> count])

\* body of the inner loop for one pattern whose exec returned match
TallyMatch(mentions, match) ==
    IF match.ok /\ Len(match.cap) > 0
       THEN LET characterName == trim(match.cap)
            IN  IF Len(characterName) > 1 /\ ~isCommonWord(characterName)
                   THEN MapSetCount(mentions, characterName,
                                    MentionCount(mentions, characterName) + 1)
                   ELSE mentions
       ELSE mentions

\* pattern.lastIndex = 0
ResetLastIndex(old) == 0

\* the inner loop over the three patterns for one line
TallyLine(mentions, line, indexes) ==
    LET m1 == exec(1, line, ResetLastIndex(indexes[1]))
        a1 == TallyMatch(mentions, m1)
        m2 == exec(2, line, ResetLastIndex(indexes[2]))
        a2 == TallyMatch(a1, m2)
        m3 == exec(3, line, ResetLastIndex(indexes[3]))
        a3 == TallyMatch(a2, m3)
    IN  [mentions |-> a3, indexes |-> <<m1.end, m2.end, m3.end>>]

----------------------------------------------------------------------------
(* The catalog: names seen often enough, most mentioned first.             *)

\* count >= 2
MinMentions == 2

\* FilterLikely that keeps every name seen at all
FilterLikelySeenOnce(mentions) ==
    SelectSeq(mentions, LAMBDA e : e.count >= 1)

\* .filter(([_, count]) => count >= 2)
FilterLikely(mentions) ==
    SelectSeq(mentions, LAMBDA e : e.count >= MinMentions)

\* InsertByCount that puts an entry before the entries of equal count
InsertByCountBeforeTies(sorted, e) ==
    LET before == {k \in 1..Len(sorted) : sorted[k].count > e.count}
        n == Cardinality(before)
    IN  SubSeq(sorted, 1, n) \o <<e>> \o SubSeq(sorted, n + 1, Len(sorted))

\* place of e in an already sorted list under the comparator b[1] - a[1]:
\* after every entry that does not have a smaller count (the sort is stable)
InsertByCount(sorted, e) ==
    LET before == {k \in 1..Len(sorted) : sorted[k].count >= e.count}
        n == Cardinality(before)
    IN  SubSeq(sorted, 1, n) \o <<e>> \o SubSeq(sorted, n + 1, Len(sorted))

\* .sort((a, b) => b[1] - a[1])
RECURSIVE SortByFrequency(_)
SortByFrequency(entries) ==
    IF Len(entries) = 0 THEN <<>>
    ELSE InsertByCount(SortByFrequency(SubSeq(entries, 1, Len(entries) - 1)),
                       entries[Len(entries)])

likelyCharacters(mentions) == SortByFrequency(FilterLikely(mentions))

\* BuildCharacterMap with id index instead of index + 1
BuildCharacterMapZeroBased(likely) ==
    [k \in 1..Len(likely) |->
        [name |-> likely[k].name,
         character |-> [id |-> toString(k - 1), name |-> likely[k].name]]]

\* likelyCharacters.forEach(([name, _], index) => characterMap.set(name, ...))
BuildCharacterMap(likely) ==
    [k \in 1..Len(likely) |->
        [name |-> likely[k].name,
         character |-> [id |-> toString(k), name |-> likely[k].name]]]

\* Array.from(characterMap.values())
MapValues(map) == [k \in 1..Len(map) |-> map[k].character]

----------------------------------------------------------------------------
(* extractScriptTitle.                                                     *)

\* Math.min(10, lines.length)
TitleScanLines == 10

\* line.length < 60
TitleMaxLength == 60

\* rawText.substring(0, 100)
TitleFileNameChars == 100

DefaultTitle ==
    <<"C","o","p","i","o","n","e"," ","I","m","p","o","r","t","a","t","o">>

\* IsTitleCandidate that lets a line of exactly 60 characters through
IsTitleCandidateUpTo60(line) ==
    Len(line) > 0 /\ Len(line) <= TitleMaxLength /\ ~includes(line, ":")

IsTitleCandidate(line) ==
    Len(line) > 0 /\ Len(line) < TitleMaxLength /\ ~includes(line, ":")

\* CollectTitleCandidates that reads lines[i] without trimming it
RECURSIVE CollectUntrimmedCandidates(_, _, _)
CollectUntrimmedCandidates(lines, k, candidates) ==
    IF k > TitleScanLines \/ k > Len(lines) THEN candidates
    ELSE LET line == lines[k]
         IN  IF Len(line) = 0
                THEN CollectUntrimmedCandidates(lines, k + 1, candidates)
             ELSE LET next == IF IsTitleCandidate(line)
                                 THEN Append(candidates, line)
                                 ELSE candidates
                  IN  IF Len(next) >= 2 THEN next
                      ELSE CollectUntrimmedCandidates(lines, k + 1, next)

\* the loop over the first lines; it stops as soon as two candidates are held
RECURSIVE CollectTitleCandidates(_, _, _)
CollectTitleCandidates(lines, k, candidates) ==
    IF k > TitleScanLines \/ k > Len(lines) THEN candidates
    ELSE LET line == trim(lines[k])
         IN  IF Len(line) = 0
                THEN CollectTitleCandidates(lines, k + 1, candidates)
             ELSE LET next == IF IsTitleCandidate(line)
                                 THEN Append(candidates, line)
                                 ELSE candidates
                  IN  IF Len(next) >= 2 THEN next
                      ELSE CollectTitleCandidates(lines, k + 1, next)

FileExtensions == { <<".","P","D","F">>, <<".","T","X","T">> }

\* /([^\/\\]+)\.(pdf|txt)$/i on the head of rawText: the capture is the
\* longest slash-free stretch right before the extension that ends the text
FileNameMatch(text) ==
    LET n == Len(text)
        stem == {s \in 1..(n - 4) :
                    \A k \in s..(n - 4) : text[k] \notin {"/", "\\"}}
    IN  IF n >= 5 /\ toUpperCase(SubSeq(text, n - 3, n)) \in FileExtensions
           /\ stem # {}
           THEN [ok |-> TRUE,
                 cap |-> SubSeq(text, CHOOSE s \in stem : \A t \in stem : s <= t,
                                n - 4)]
           ELSE [ok |-> FALSE, cap |-> <<>>]

\* .replace(/[_-]/g, ' ')
ReplaceSeparators(s) ==
    [k \in 1..Len(s) |-> IF s[k] \in {"_", "-"} THEN " " ELSE s[k]]

extractScriptTitle(lines) ==
    LET titleCandidates == CollectTitleCandidates(lines, 1, <<>>)
        rawText == JoinLines(lines)
        head == SubSeq(rawText, 1,
                       IF Len(rawText) < TitleFileNameChars
                          THEN Len(rawText) ELSE TitleFileNameChars)
        fileName == FileNameMatch(head)
    IN  IF Len(titleCandidates) > 0
           THEN IF /\ Len(titleCandidates) > 1
                   /\ toUpperCase(titleCandidates[2]) = titleCandidates[2]
                   /\ toUpperCase(titleCandidates[1]) # titleCandidates[1]
                   THEN titleCandidates[2]
                   ELSE titleCandidates[1]
        ELSE IF fileName.ok THEN ReplaceSeparators(fileName.cap)
        ELSE DefaultTitle

----------------------------------------------------------------------------
(* Second pass: helpers of the line walk.                                  *)

SceneKeywords ==
    { <<"A","T","T","O">>, <<"S","C","E","N","A">>,
      <<"A","C","T">>, <<"S","C","E","N","E">> }

\* [IVX\d] under the i flag
SceneNumberClass == {"I", "V", "X", "i", "v", "x"} \cup Digits

\* line.match(/^(ATTO|SCENA|ACT|SCENE)\s+([IVX\d]+)/i)
IsSceneMarker(line) ==
    \E kw \in SceneKeywords :
        /\ startsWith(toUpperCase(line), kw)
        /\ LET e == RunEnd(line, Len(kw) + 1, WhiteSpace)
           IN  /\ e > Len(kw) + 1
               /\ e <= Len(line)
               /\ line[e] \in SceneNumberClass

\* MatchCharacter that takes the name alone as the prefix, without the colon
MatchCharacterByPrefix(map, line) ==
    LET fits == {k \in 1..Len(map) : startsWith(line, map[k].name)}
    IN  IF fits = {} THEN 0
        ELSE CHOOSE k \in fits : \A m \in fits : k <= m

\* for (const name of characterMap.keys()) if (line.startsWith(name + ':'))
\* ... break: the first key in insertion order that fits, 0 when none
MatchCharacter(map, line) ==
    LET fits == {k \in 1..Len(map) : startsWith(line, Append(map[k].name, ":"))}
    IN  IF fits = {} THEN 0
        ELSE CHOOSE k \in fits : \A m \in fits : k <= m

DirectionVerbs ==
    { <<"E","N","T","R","A">>, <<"E","S","C","E">>,
      <<"E","N","T","R","A"," ","I","N"," ","S","C","E","N","A">>,
      <<"E","S","C","E"," ","D","I"," ","S","C","E","N","A">>,
      <<"S","I"," ","A","L","Z","A">>, <<"S","I"," ","S","I","E","D","E">> }

isSceneDirection(line) ==
    \/ startsWith(line, <<"(">>) /\ endsWith(line, <<")">>)
    \/ \E verb \in DirectionVerbs : startsWith(toUpperCase(line), verb)

\* line.length < 3
MinDialogueLength == 3

\* line.length > 10
LongUpperLength == 10

\* looksLikeDialogue that takes an upper-case line of 10 characters as long
looksLikeDialogueLongFrom10(line) ==
    IF Len(line) < MinDialogueLength THEN FALSE
    ELSE IF line[Len(line)] \in {".", "!", "?"} THEN TRUE
    ELSE IF \/ startsWith(line, <<"(">>)
            \/ (toUpperCase(line) = line /\ Len(line) >= LongUpperLength)
         THEN FALSE
    ELSE TRUE

looksLikeDialogue(line) ==
    IF Len(line) < MinDialogueLength THEN FALSE
    ELSE IF line[Len(line)] \in {".", "!", "?"} THEN TRUE
    ELSE IF \/ startsWith(line, <<"(">>)
            \/ (toUpperCase(line) = line /\ Len(line) > LongUpperLength)
         THEN FALSE
    ELSE TRUE

\* CurrentSceneIndex that stays on the implicit first scene
CurrentSceneIndexFirst(scenes) == 1

\* DialogText that cuts at the name's length and keeps the colon
DialogTextFromColon(line, matchedName) ==
    trim(substring(line, Len(matchedName)))

\* line.substring(matchedName.length + 1).trim()
DialogText(line, matchedName) ==
    trim(substring(line, Len(matchedName) + 1))

\* script.scenes[script.scenes.length - 1]
CurrentSceneIndex(scenes) == Len(scenes)

\* DialogueLine with ids that restart in every scene
DialogueLinePerScene(counter, characterId, text, scene) ==
    [id |-> toString(Len(scene.lines) + 1), characterId |-> characterId,
     text |-> text, sceneId |-> scene.id]

\* a spoken Line: isDirection is left unset
DialogueLine(counter, characterId, text, scene) ==
    [id |-> toString(counter), characterId |-> characterId, text |-> text,
     sceneId |-> scene.id]

\* DirectionLine without the isDirection flag
DirectionLineUnflagged(counter, text, scene) ==
    [id |-> toString(counter), characterId |-> "0", text |-> text,
     sceneId |-> scene.id]

\* characterId '0', isDirection true
DirectionLine(counter, text, scene) ==
    [id |-> toString(counter), characterId |-> "0", text |-> text,
     sceneId |-> scene.id, isDirection |-> TRUE]

\* scenes[at].lines.push(line)
PushLine(scenes, at, line) ==
    [scenes EXCEPT ![at].lines = Append(@, line)]

\* previousLine.text += ' ' + line
AppendText(scenes, at, line) ==
    [scenes EXCEPT ![at].lines[Len(scenes[at].lines)].text = @ \o <<" ">> \o line]

\* PushScene with the id taken before the push (length, not length + 1)
PushSceneStaleId(scenes, line) ==
    Append(scenes, [id |-> toString(Len(scenes)), name |-> line, lines |-> <<>>])

\* script.scenes.push({id, name: line, lines: []})
PushScene(scenes, line) ==
    Append(scenes, [id |-> toString(Len(scenes) + 1), name |-> line, lines |-> <<>>])

FirstSceneName == <<"S","c","e","n","a"," ","1">>

\* BaseScript that leaves the character list out
BaseScriptNoCharacters(lines, map) ==
    [title |-> extractScriptTitle(lines),
     characters |-> <<>>,
     scenes |-> <<[id |-> "1", name |-> FirstSceneName, lines |-> <<>>]>>]

\* the script literal built before the second pass
BaseScript(lines, map) ==
    [title |-> extractScriptTitle(lines),
     characters |-> MapValues(map),
     scenes |-> <<[id |-> "1", name |-> FirstSceneName, lines |-> <<>>]>>]

NoScript == [title |-> <<>>, characters |-> <<>>, scenes |-> <<>>]

\* NewCharacterMentions of a tally kept on the service between calls
KeptCharacterMentions(previous) == previous

\* new Map<string, number>() of one call
NewCharacterMentions(previous) == <<>>

\* the three pattern literals are evaluated anew by every call
NewPatterns(previous) == <<0, 0, 0>>

----------------------------------------------------------------------------
(* Inputs.                                                                 *)

Texts(pool, maxLines) == UNION {[1..n -> pool] : n \in 1..maxLines}

Pool ==
    { <<>>,
      <<" ">>,
      <<"A","B",":">>,
      <<"A","B",":"," ","a",".">>,
      <<"B","A",":"," ","b">>,
      <<"o","k">>,
      <<"y","e","s",".">>,
      <<"(","x",")">>,
      <<"A","C","T"," ","I">> }

----------------------------------------------------------------------------
(* analyzeScriptText as a state machine.                                   *)

\* parseScript is not running
IdleParser == parseRun = [outcome |-> "idle"]

\* no client has asked the TtsService for anything
IdleClient ==
    /\ requested = <<>>
    /\ started = <<>>
    /\ completed = <<>>

\* extractTextFromPdf is not running
IdlePdf == extraction = [pc |-> "idle"]

\* no text has been given to detectScriptStructure
IdleDetect ==
    /\ extractedText = <<>>
    /\ detected = <<>>

\* no ScriptReader is mounted and the TtsService singleton is as constructed
IdleReader ==
    /\ readerLines = <<>>
    /\ currentLineIndex = 0
    /\ isPlaying = FALSE
    /\ isSpeaking = FALSE
    /\ queue = <<>>
    /\ speech = <<>>
    /\ timers = <<>>
    /\ presses = 0
    /\ crashed = FALSE

\* analyzeScriptText is not running
IdleEngine ==
    /\ rawLines = <<>>
    /\ pc = "idle"
    /\ fp = 0
    /\ lastIndex = <<0, 0, 0>>
    /\ characterMentions = <<>>
    /\ characterMap = <<>>
    /\ script = NoScript
    /\ currentCharacterId = NULL
    /\ lineCounter = 0
    /\ i = 0
    /\ returned = <<>>

Enter(text) ==
    /\ rawLines = text
    /\ pc = "firstPass"
    /\ fp = 0
    /\ lastIndex = NewPatterns(<<0, 0, 0>>)
    /\ characterMentions = NewCharacterMentions(<<>>)
    /\ characterMap = <<>>
    /\ script = NoScript
    /\ currentCharacterId = NULL
    /\ lineCounter = 0
    /\ i = 0
    /\ returned = <<>>
    /\ IdleDetect
    /\ IdleReader
    /\ IdleParser
    /\ IdleClient
    /\ IdlePdf

Init == \E text \in Texts(Pool, MaxLines) : Enter(text)

\* one iteration of the first loop: all three patterns on lines[fp]
FirstPassLine ==
    /\ pc = "firstPass"
    /\ fp < Len(rawLines)
    /\ LET t == TallyLine(characterMentions, rawLines[fp + 1], lastIndex)
       IN  /\ characterMentions' = t.mentions
           /\ lastIndex' = t.indexes
    /\ fp' = fp + 1
    /\ UNCHANGED <<detectVars, readerVars,
                   parserVars, clientVars, pdfVars>>
    /\ UNCHANGED <<rawLines, pc, characterMap, script, currentCharacterId,
                   lineCounter, i, returned>>

\* filter, sort, characterMap, the script literal, the walk's variables
BuildCatalog ==
    /\ pc = "firstPass"
    /\ fp = Len(rawLines)
    /\ LET map == BuildCharacterMap(likelyCharacters(characterMentions))
       IN  /\ characterMap' = map
           /\ script' = BaseScript(rawLines, map)
    /\ currentCharacterId' = NULL
    /\ lineCounter' = 0
    /\ i' = 0
    /\ pc' = "walk"
    /\ UNCHANGED <<detectVars, readerVars,
                   parserVars, clientVars, pdfVars>>
    /\ UNCHANGED <<rawLines, fp, lastIndex, characterMentions, returned>>

WalkLine == trim(rawLines[i + 1])

Walking == pc = "walk" /\ i < Len(rawLines)

\* if (line.length === 0) continue
SkipEmptyLine ==
    /\ Walking
    /\ Len(WalkLine) = 0
    /\ i' = i + 1
    /\ UNCHANGED <<detectVars, readerVars,
                   parserVars, clientVars, pdfVars>>
    /\ UNCHANGED <<rawLines, pc, fp, lastIndex, characterMentions, characterMap,
                   script, currentCharacterId, lineCounter, returned>>

\* SceneMarkerLine that also forgets the current speaker
SceneMarkerLineResetsSpeaker ==
    /\ Walking
    /\ Len(WalkLine) # 0
    /\ IsSceneMarker(WalkLine)
    /\ script' = [script EXCEPT !.scenes = PushScene(@, WalkLine)]
    /\ currentCharacterId' = NULL
    /\ i' = i + 1
    /\ UNCHANGED <<detectVars, readerVars,
                   parserVars, clientVars, pdfVars>>
    /\ UNCHANGED <<rawLines, pc, fp, lastIndex, characterMentions, characterMap,
                   lineCounter, returned>>

\* if (sceneMarker) { script.scenes.push(...); continue }
SceneMarkerLine ==
    /\ Walking
    /\ Len(WalkLine) # 0
    /\ IsSceneMarker(WalkLine)
    /\ script' = [script EXCEPT !.scenes = PushScene(@, WalkLine)]
    /\ i' = i + 1
    /\ UNCHANGED <<detectVars, readerVars,
                   parserVars, clientVars, pdfVars>>
    /\ UNCHANGED <<rawLines, pc, fp, lastIndex, characterMentions, characterMap,
                   currentCharacterId, lineCounter, returned>>

\* if (characterMatch) { ... }
SpeakerLine ==
    /\ Walking
    /\ Len(WalkLine) # 0
    /\ ~IsSceneMarker(WalkLine)
    /\ MatchCharacter(characterMap, WalkLine) # 0
    /\ LET entry == characterMap[MatchCharacter(characterMap, WalkLine)]
           dialogText == DialogText(WalkLine, entry.name)
           at == CurrentSceneIndex(script.scenes)
       IN  /\ currentCharacterId' = entry.character.id
           /\ IF Len(dialogText) > 0
                 THEN /\ lineCounter' = lineCounter + 1
                      /\ script' = [script EXCEPT !.scenes =
                            PushLine(@, at,
                                DialogueLine(lineCounter + 1, entry.character.id,
                                             dialogText, script.scenes[at]))]
                 ELSE UNCHANGED <<lineCounter, script>>
    /\ i' = i + 1
    /\ UNCHANGED <<detectVars, readerVars,
                   parserVars, clientVars, pdfVars>>
    /\ UNCHANGED <<rawLines, pc, fp, lastIndex, characterMentions, characterMap,
                   returned>>

\* else if (currentCharacterId && line.length > 0 && !this.isSceneDirection(line))
ContinuationLine ==
    /\ Walking
    /\ Len(WalkLine) # 0
    /\ ~IsSceneMarker(WalkLine)
    /\ MatchCharacter(characterMap, WalkLine) = 0
    /\ currentCharacterId # NULL
    /\ ~isSceneDirection(WalkLine)
    /\ LET at == CurrentSceneIndex(script.scenes)
           previousScene == script.scenes[at]
       IN  \/ /\ Len(previousScene.lines) > 0
              /\ previousScene.lines[Len(previousScene.lines)].characterId
                    = currentCharacterId
              /\ script' = [script EXCEPT !.scenes = AppendText(@, at, WalkLine)]
              /\ UNCHANGED lineCounter
           \/ /\ ~ (/\ Len(previousScene.lines) > 0
                    /\ previousScene.lines[Len(previousScene.lines)].characterId
                          = currentCharacterId)
              /\ looksLikeDialogue(WalkLine)
              /\ lineCounter' = lineCounter + 1
              /\ script' = [script EXCEPT !.scenes =
                    PushLine(@, at,
                        DialogueLine(lineCounter + 1, currentCharacterId,
                                     WalkLine, previousScene))]
           \/ /\ ~ (/\ Len(previousScene.lines) > 0
                    /\ previousScene.lines[Len(previousScene.lines)].characterId
                          = currentCharacterId)
              /\ ~looksLikeDialogue(WalkLine)
              /\ lineCounter' = lineCounter + 1
              /\ script' = [script EXCEPT !.scenes =
                    PushLine(@, at,
                        DirectionLine(lineCounter + 1, WalkLine, previousScene))]
    /\ i' = i + 1
    /\ UNCHANGED <<detectVars, readerVars,
                   parserVars, clientVars, pdfVars>>
    /\ UNCHANGED <<rawLines, pc, fp, lastIndex, characterMentions, characterMap,
                   currentCharacterId, returned>>

\* else if (line.length > 0): no speaker yet, or a stage direction
UnattributedLine ==
    /\ Walking
    /\ Len(WalkLine) # 0
    /\ ~IsSceneMarker(WalkLine)
    /\ MatchCharacter(characterMap, WalkLine) = 0
    /\ ~ (currentCharacterId # NULL /\ ~isSceneDirection(WalkLine))
    /\ LET at == CurrentSceneIndex(script.scenes)
       IN  script' = [script EXCEPT !.scenes =
                PushLine(@, at,
                    DirectionLine(lineCounter + 1, WalkLine, script.scenes[at]))]
    /\ lineCounter' = lineCounter + 1
    /\ i' = i + 1
    /\ UNCHANGED <<detectVars, readerVars,
                   parserVars, clientVars, pdfVars>>
    /\ UNCHANGED <<rawLines, pc, fp, lastIndex, characterMentions, characterMap,
                   currentCharacterId, returned>>

\* return script
Return ==
    /\ pc = "walk"
    /\ i = Len(rawLines)
    /\ pc' = "done"
    /\ returned' = Append(returned, [input |-> rawLines, result |-> script])
    /\ UNCHANGED <<detectVars, readerVars,
                   parserVars, clientVars, pdfVars>>
    /\ UNCHANGED <<rawLines, fp, lastIndex, characterMentions, characterMap,
                   script, currentCharacterId, lineCounter, i>>

Next ==
    \/ FirstPassLine
    \/ BuildCatalog
    \/ SkipEmptyLine
    \/ SceneMarkerLine
    \/ SpeakerLine
    \/ ContinuationLine
    \/ UnattributedLine
    \/ Return

Spec == Init /\ [][Next]_vars

----------------------------------------------------------------------------
(* Vocabulary of the properties.                                           *)

\* the decimal numerals, written out
Decimal == <<"1","2","3","4","5","6","7","8","9","10","11","12">>

RECURSIVE AllLines(_)
AllLines(scenes) ==
    IF Len(scenes) = 0 THEN <<>>
    ELSE scenes[1].lines \o AllLines(Tail(scenes))

Structured == pc \in {"walk", "done"}

IsDirection(line) == "isDirection" \in DOMAIN line /\ line.isDirection

CharacterIds == {script.characters[k].id : k \in 1..Len(script.characters)}

CharacterNames == {script.characters[k].name : k \in 1..Len(script.characters)}

\* sub occurs in text as a contiguous stretch
Contains(text, sub) ==
    \E k \in 0..(Len(text) - Len(sub)) : SubSeq(text, k + 1, k + Len(sub)) = sub

\* some Line holds a raw line that was appended to an earlier text
MergeHappened ==
    \E l \in Range(AllLines(script.scenes)) :
        \E k \in 1..Len(rawLines) :
            /\ Len(trim(rawLines[k])) > 0
            /\ endsWith(l.text, <<" ">> \o trim(rawLines[k]))

----------------------------------------------------------------------------
(* C1: for every input the scenes list is non-empty and the Line ids, read *)
(* scene by scene and line by line, are exactly "1", "2", ..., "n".        *)
C1_LineIdsSequential ==
    Structured =>
        /\ Len(script.scenes) > 0
        /\ LET all == AllLines(script.scenes)
           IN  \A k \in 1..Len(all) : all[k].id = Decimal[k]

C1_Witness ==
    /\ pc = "done"
    /\ Len(script.scenes) >= 2
    /\ Len(script.scenes[1].lines) >= 1
    /\ Len(script.scenes[2].lines) >= 1
    /\ MergeHappened

(* C2: after every step of the walk every Line's characterId is "0" or    *)
(* the id of a Character of script.characters, and no Character has id "0".*)
C2_CharacterIdsValid ==
    Structured =>
        /\ \A l \in Range(AllLines(script.scenes)) :
              l.characterId = "0" \/ l.characterId \in CharacterIds
        /\ "0" \notin CharacterIds

C2_Witness ==
    /\ pc = "done"
    /\ Len(script.characters) = 2
    /\ \E b, c \in Range(AllLines(script.scenes)) :
          /\ b.characterId = script.characters[1].id
          /\ c.characterId = script.characters[2].id

(* C3: every Line's sceneId is the id of the Scene that holds it, and the  *)
(* scene ids in list order are exactly "1", "2", ..., "k".                 *)
C3_SceneIdsConsistent ==
    Structured =>
        \A k \in 1..Len(script.scenes) :
            /\ script.scenes[k].id = Decimal[k]
            /\ \A l \in Range(script.scenes[k].lines) :
                  l.sceneId = script.scenes[k].id

C3_Witness ==
    /\ pc = "done"
    /\ Len(script.scenes) >= 3
    /\ Len(script.scenes[1].lines) >= 1
    /\ Len(script.scenes[3].lines) >= 1

\* no line of the input is matched by any of the three speaker patterns
NoSpeakerPattern ==
    \A k \in 1..Len(rawLines) : \A p \in PatternIds :
        ~exec(p, rawLines[k], 0).ok

(* C4: when no input line matches any of the three speaker patterns, the   *)
(* result has no characters and every Line has characterId "0" and is      *)
(* marked as a direction.                                                  *)
C4_NoSpeakersAllDirections ==
    (pc = "done" /\ NoSpeakerPattern) =>
        /\ script.characters = <<>>
        /\ \A l \in Range(AllLines(script.scenes)) :
              l.characterId = "0" /\ IsDirection(l)

C4_Witness ==
    /\ pc = "done"
    /\ NoSpeakerPattern
    /\ Len(AllLines(script.scenes)) >= 3
    /\ Len(script.scenes) >= 2

----------------------------------------------------------------------------
(* The catalog builder alone, on texts of speaker cues.                    *)

CatalogPool ==
    { <<"A","B",":"," ","a",".">>,
      <<"B","A"," ","(","x",")">>,
      <<"B","A"," ">>,
      <<"I","l",":"," ","b">>,
      <<"A"," ",":"," ","b">> }

InitCatalog == \E text \in Texts(CatalogPool, MaxCatalogLines) : Enter(text)

NextCatalog ==
    \/ FirstPassLine
    \/ BuildCatalog

SpecCatalog == InitCatalog /\ [][NextCatalog]_vars

\* the places <<line, pattern>> of the input where name is captured
CapturesOf(name) ==
    {c \in (1..Len(rawLines)) \X PatternIds :
        LET match == exec(c[2], rawLines[c[1]], 0)
        IN  match.ok /\ trim(match.cap) = name}

CapturedNames ==
    {trim(exec(c[2], rawLines[c[1]], 0).cap) :
        c \in {d \in (1..Len(rawLines)) \X PatternIds :
                  exec(d[2], rawLines[d[1]], 0).ok}}

\* rank of the first capture of name, in reading order
FirstSeen(name) ==
    LET ranks == {3 * c[1] + c[2] : c \in CapturesOf(name)}
    IN  CHOOSE r \in ranks : \A q \in ranks : r <= q

(* C5: a name is in script.characters exactly when the speaker patterns    *)
(* captured it at least twice over the lines of the input, its trimmed     *)
(* length exceeds 1 and it is not a stop-list word (compared in upper      *)
(* case); a name captured once never appears.                              *)
C5_CatalogMembership ==
    Structured =>
        \A name \in CapturedNames \cup CharacterNames :
            name \in CharacterNames
                <=> /\ Cardinality(CapturesOf(name)) >= 2
                    /\ Len(name) > 1
                    /\ toUpperCase(name) \notin commonWords

C5_Witness ==
    /\ Structured
    /\ \E name \in CharacterNames : Cardinality(CapturesOf(name)) = 2
    /\ \E name \in CapturedNames :
          Cardinality(CapturesOf(name)) = 1 /\ name \notin CharacterNames
    /\ \E name \in CapturedNames :
          /\ Cardinality(CapturesOf(name)) >= 2
          /\ toUpperCase(name) \in commonWords
          /\ name \notin CharacterNames

(* C6: script.characters is ordered by descending occurrence count, names  *)
(* with equal counts keep first-seen order, and the character at 0-based   *)
(* position i has id i + 1 written in decimal.                             *)
C6_CatalogOrder ==
    Structured =>
        /\ \A k \in 1..Len(script.characters) :
              script.characters[k].id = Decimal[k]
        /\ \A a, b \in 1..Len(script.characters) :
              a < b =>
                LET na == Cardinality(CapturesOf(script.characters[a].name))
                    nb == Cardinality(CapturesOf(script.characters[b].name))
                IN  \/ na > nb
                    \/ /\ na = nb
                       /\ FirstSeen(script.characters[a].name)
                             < FirstSeen(script.characters[b].name)

C6_Witness ==
    /\ Structured
    /\ Len(script.characters) = 2
    /\ Cardinality(CapturesOf(script.characters[1].name))
          > Cardinality(CapturesOf(script.characters[2].name))
    /\ FirstSeen(script.characters[1].name) > FirstSeen(script.characters[2].name)

----------------------------------------------------------------------------
(* Properties of the walk.                                                 *)

\* the walk takes line k as the cue of a cataloged speaker
IsSpeakerCue(k) ==
    LET line == trim(rawLines[k])
    IN  /\ Len(line) > 0
        /\ ~IsSceneMarker(line)
        /\ MatchCharacter(characterMap, line) # 0

\* line k is non-empty and neither a cue, a scene marker nor a direction
IsPlainLine(k) ==
    LET line == trim(rawLines[k])
    IN  /\ Len(line) > 0
        /\ ~IsSceneMarker(line)
        /\ MatchCharacter(characterMap, line) = 0
        /\ ~isSceneDirection(line)

\* lines k-1 and k sit in one Line, joined by a single space
JoinedInOneLine(k) ==
    \E l \in Range(AllLines(script.scenes)) :
        Contains(l.text, trim(rawLines[k - 1]) \o <<" ">> \o trim(rawLines[k]))

(* C7: whenever a speaker line of a cataloged name is followed by two      *)
(* consecutive plain lines, the two end up in one single Line, joined by   *)
(* a single space in input order, also when the cue has nothing after the  *)
(* colon.                                                                  *)
C7_ContinuationMerge ==
    Structured =>
        \A k \in 3..i :
            (IsSpeakerCue(k - 2) /\ IsPlainLine(k - 1) /\ IsPlainLine(k))
                => JoinedInOneLine(k)

\* the part of C7 the walk keeps: the cue carries text after the colon
C7_MergeAfterSpokenCue ==
    Structured =>
        \A k \in 3..i :
            (/\ IsSpeakerCue(k - 2)
             /\ Len(trim(substring(trim(rawLines[k - 2]),
                    Len(characterMap[MatchCharacter(characterMap,
                            trim(rawLines[k - 2]))].name) + 1))) > 0
             /\ IsPlainLine(k - 1) /\ IsPlainLine(k))
                => JoinedInOneLine(k)

(* C8: a scene marker line appends a Scene named by the whole trimmed      *)
(* line and stores no Line; a Line emitted or extended afterwards goes to  *)
(* the last Scene, never to an earlier one.                                *)
C8_MarkerOpensScene ==
    [][ Walking =>
          LET n == Len(script.scenes)
          IN  /\ \A k \in 1..(n - 1) : script'.scenes[k] = script.scenes[k]
              /\ IF Len(WalkLine) > 0 /\ IsSceneMarker(WalkLine)
                    THEN /\ Len(script'.scenes) = n + 1
                         /\ script'.scenes[n] = script.scenes[n]
                         /\ script'.scenes[n + 1].name = WalkLine
                         /\ script'.scenes[n + 1].lines = <<>>
                         /\ lineCounter' = lineCounter
                    ELSE Len(script'.scenes) = n ]_vars

C8_Witness ==
    /\ pc = "done"
    /\ Len(script.scenes) = 2
    /\ script.scenes[2].name = <<"A","C","T"," ","I">>
    /\ Len(script.scenes[1].lines) >= 1
    /\ Len(script.scenes[2].lines) >= 1
    /\ \E k \in 2..(Len(rawLines) - 1) : IsSceneMarker(trim(rawLines[k]))

\* every line of the input is empty or whitespace
BlankInput == \A k \in 1..Len(rawLines) : Len(trim(rawLines[k])) = 0

(* C9: for the empty string and for any input of blank lines only, the     *)
(* result has the title 'Copione Importato', no characters, and exactly    *)
(* one scene, with id "1" and no lines.                                    *)
C9_BlankInput ==
    (pc = "done" /\ BlankInput) =>
        /\ script.title = DefaultTitle
        /\ script.characters = <<>>
        /\ Len(script.scenes) = 1
        /\ script.scenes[1].id = "1"
        /\ script.scenes[1].lines = <<>>
        /\ returned[Len(returned)].result = script

C9_Witness ==
    /\ pc = "done"
    /\ BlankInput
    /\ \E k \in 1..Len(rawLines) : Len(rawLines[k]) > 0
    /\ \E k \in 1..Len(rawLines) : Len(rawLines[k]) = 0

C9_WitnessEmptyString ==
    /\ pc = "done"
    /\ rawLines = << <<>> >>
    /\ Len(returned) = 1

----------------------------------------------------------------------------
(* Repeated calls on the exported singleton characterRecognitionService.   *)

CallTexts ==
    { << <<"A","B",":"," ","a",".">> >>,
      << <<"(","x",")">>, <<"A","B",":">>, <<"o","k">>, <<"y","e","s",".">>,
         <<"A","B",":"," ","a",".">>, <<"o","k">>, <<"A","C","T"," ","I">>,
         <<>>, <<"o","k">> >>,
      << <<"B","A",":"," ","b">>, <<"A","B",":"," ","a",".">>,
         <<"B","A",":"," ","b">>, <<"A","B",":">> >> }

InitCalls == \E text \in CallTexts : Enter(text)

\* the next call on the same instance: the class has no fields, every
\* structure of the call is allocated anew
CallAgain ==
    /\ pc = "done"
    /\ Len(returned) < MaxCalls
    /\ \E text \in CallTexts : rawLines' = text
    /\ pc' = "firstPass"
    /\ fp' = 0
    /\ lastIndex' = NewPatterns(lastIndex)
    /\ characterMentions' = NewCharacterMentions(characterMentions)
    /\ characterMap' = <<>>
    /\ script' = NoScript
    /\ currentCharacterId' = NULL
    /\ lineCounter' = 0
    /\ i' = 0
    /\ UNCHANGED <<detectVars, readerVars,
                   parserVars, clientVars, pdfVars>>
    /\ UNCHANGED returned

NextCalls ==
    \/ Next
    \/ CallAgain

SpecCalls == InitCalls /\ [][NextCalls]_vars

(* C10: two calls on the same input return the same Script (title,         *)
(* characters and ids in order, scenes, Line ids, texts, characterIds and  *)
(* direction flags), whatever calls on the singleton lie between them.     *)
C10_SameInputSameScript ==
    \A a, b \in 1..Len(returned) :
        returned[a].input = returned[b].input
            => returned[a].result = returned[b].result

C10_Witness ==
    /\ Len(returned) = 3
    /\ returned[1].input = returned[3].input
    /\ returned[2].input # returned[1].input
    /\ Len(returned[1].result.characters) = 2
    /\ Len(returned[2].result.characters) = 1
    /\ Len(AllLines(returned[2].result.scenes)) >= 3

----------------------------------------------------------------------------
(* The walk on lines with indentation, repeated spaces and a cue whose     *)
(* name reads as an act marker.                                            *)

SpacingPool ==
    { <<>>,
      <<"A","C","T"," ","I",":"," ","a">>,
      <<" ","A","B",":"," ","a">>,
      <<"A","B",":"," "," ","a"," "," ","b">>,
      <<"A","B",":">>,
      <<"c"," "," ","d"," ">>,
      <<"o","k">> }

InitSpacing == \E text \in Texts(SpacingPool, MaxSpacingLines) : Enter(text)

SpecSpacing == InitSpacing /\ [][Next]_vars

\* no whitespace at either end
IsTrimmed(text) ==
    Len(text) > 0 => (text[1] \notin WhiteSpace /\ text[Len(text)] \notin WhiteSpace)

\* no two whitespace characters in a row
IsCollapsed(text) ==
    \A k \in 1..(Len(text) - 1) :
        ~(text[k] \in WhiteSpace /\ text[k + 1] \in WhiteSpace)

(* C11: every Line.text of the result is trimmed and whitespace-collapsed: *)
(* no leading or trailing whitespace and no run of two or more whitespace  *)
(* characters, merged Lines included.                                      *)
C11_TextTrimmedCollapsed ==
    Structured =>
        \A l \in Range(AllLines(script.scenes)) :
            IsTrimmed(l.text) /\ IsCollapsed(l.text)

\* the part of C11 the walk keeps: every text is trimmed
C11_TextTrimmed ==
    Structured =>
        \A l \in Range(AllLines(script.scenes)) : IsTrimmed(l.text)

----------------------------------------------------------------------------
(* The title extractor, on texts that open with blank lines.               *)

\* a line of exactly 60 characters
LongLine == [k \in 1..TitleMaxLength |-> "a"]

TitlePool ==
    { <<"A","b">>,
      <<"C","D">>,
      <<" ","e","f"," ">>,
      LongLine,
      <<"A","b",":"," ","c","_","d",".","t","x","t">> }

BlankLines(n) == [k \in 1..n |-> <<>>]

TitleTexts ==
    {BlankLines(n) \o body :
        n \in 0..MaxBlankLines, body \in Texts(TitlePool, MaxTitleLines)}

InitTitle == \E text \in TitleTexts : Enter(text)

SpecTitle == InitTitle /\ [][NextCatalog]_vars

\* no lower-case letter in the line
EntirelyUpper(line) == \A k \in 1..Len(line) : line[k] \notin LowerAZ

\* non-empty, shorter than 60, no colon
FitsTitle(line) ==
    Len(line) > 0 /\ Len(line) < 60 /\ \A k \in 1..Len(line) : line[k] # ":"

FirstTwo(s) == SubSeq(s, 1, IF Len(s) < 2 THEN Len(s) ELSE 2)

\* the fitting lines among the first 10 lines of the text, trimmed, in order
RawLineCandidates ==
    LET n == IF Len(rawLines) < 10 THEN Len(rawLines) ELSE 10
        head == [k \in 1..n |-> trim(rawLines[k])]
    IN  SelectSeq(head, FitsTitle)

(* C12: with at least one title candidate the title is the first one,      *)
(* unless a second exists that is entirely upper case while the first is   *)
(* not, and then it is the second; at most two candidates are collected,   *)
(* each a non-empty trimmed line shorter than 60 without a colon.          *)
C12_TitleSelection ==
    Structured =>
        LET collected == CollectTitleCandidates(rawLines, 1, <<>>)
            wanted == FirstTwo(RawLineCandidates)
        IN  /\ collected = wanted
            /\ Len(collected) <= 2
            /\ \A k \in 1..Len(collected) :
                  FitsTitle(collected[k]) /\ IsTrimmed(collected[k])
            /\ Len(wanted) > 0 =>
                  script.title =
                     IF /\ Len(wanted) = 2
                        /\ EntirelyUpper(wanted[2])
                        /\ ~EntirelyUpper(wanted[1])
                        THEN wanted[2] ELSE wanted[1]

C12_Witness ==
    /\ Structured
    /\ Len(RawLineCandidates) >= 2
    /\ script.title = RawLineCandidates[2]
    /\ script.title # RawLineCandidates[1]
    /\ trim(rawLines[1]) = LongLine

\* the first 10 non-empty lines of the text, trimmed
NormalizedHead ==
    LET kept == SelectSeq([k \in 1..Len(rawLines) |-> trim(rawLines[k])],
                          LAMBDA l : Len(l) > 0)
    IN  SubSeq(kept, 1, IF Len(kept) < 10 THEN Len(kept) ELSE 10)

(* C13: whenever one of the first 10 non-empty lines is shorter than 60    *)
(* and has no colon, the title is such a line of those ten and not a       *)
(* fallback, however many blank lines come before or between them.         *)
C13_TitleFromNormalizedLines ==
    Structured =>
        ((\E k \in 1..Len(NormalizedHead) : FitsTitle(NormalizedHead[k]))
            => \E k \in 1..Len(NormalizedHead) :
                  FitsTitle(NormalizedHead[k]) /\ script.title = NormalizedHead[k])

\* the part of C13 the extractor keeps: the ten lines counted are raw lines
C13_TitleFromRawLines ==
    Structured =>
        (Len(RawLineCandidates) > 0
            => \E k \in 1..Len(RawLineCandidates) :
                  script.title = RawLineCandidates[k])

----------------------------------------------------------------------------
(* Termination of one call.                                                *)

\* analyzeScriptText is synchronous: once called, its loops run to the end
LivePool ==
    { <<>>,
      <<"A","B",":">>,
      <<"A","B",":"," ","a",".">>,
      <<"y","e","s",".">>,
      <<"o","k">>,
      <<"A","C","T"," ","I">> }

\* first lines: a cue with nothing after the colon, a direction before any
\* speaker, a marker
LiveOpenings == { <<"A","B",":">>, <<"o","k">>, <<"A","C","T"," ","I">> }

LiveCues == { <<>>, <<"A","B",":">>, <<"A","B",":"," ","a",".">> }

LiveTexts ==
    Texts(LivePool, 1)
        \cup {<<a, b, c>> : a \in LiveOpenings, b \in LiveCues, c \in LivePool}

InitLive == \E text \in LiveTexts : Enter(text)

SpecLive == InitLive /\ [][Next]_vars /\ WF_vars(Next)

IsScript(s) ==
    /\ DOMAIN s = {"title", "characters", "scenes"}
    /\ Len(s.title) > 0
    /\ Len(s.scenes) >= 1
    /\ \A k \in 1..Len(s.characters) :
          DOMAIN s.characters[k] = {"id", "name"}
    /\ \A k \in 1..Len(s.scenes) :
          DOMAIN s.scenes[k] = {"id", "name", "lines"}

(* C15: every call ends and returns a Script, whatever the lines are; the  *)
(* returned character list is empty only when the catalog retained no name.*)
C15_TerminatesWithScript ==
    /\ <>(pc = "done")
    /\ [](pc = "done" =>
            /\ Len(returned) = 1
            /\ returned[1].input = rawLines
            /\ IsScript(returned[1].result)
            /\ (returned[1].result.characters = <<>>
                  => likelyCharacters(characterMentions) = <<>>))

\* a cue with nothing after the colon, a marker as last line, and a
\* catalog that is not empty
C15_Witness ==
    /\ pc = "done"
    /\ \E k \in 1..Len(rawLines) :
          MatchCharacter(characterMap, trim(rawLines[k])) # 0
          /\ DialogText(trim(rawLines[k]),
                characterMap[MatchCharacter(characterMap, trim(rawLines[k]))].name) = <<>>
    /\ IsSceneMarker(trim(rawLines[Len(rawLines)]))
    /\ returned[1].result.characters # <<>>

----------------------------------------------------------------------------
(* The lines the first pass counts.                                        *)

\* the tally of the three patterns over a sequence of lines
RECURSIVE TallyOver(_, _)
TallyOver(lines, mentions) ==
    IF Len(lines) = 0 THEN mentions
    ELSE TallyOver(Tail(lines), TallyLine(mentions, Head(lines), <<0, 0, 0>>).mentions)

TrimmedLines == [k \in 1..Len(rawLines) |-> trim(rawLines[k])]

(* C17: the catalog tally is the tally of the trimmed lines, the lines the *)
(* walk goes through: an indented 'NAME: text' line counts for NAME as the *)
(* unindented line does.                                                   *)
C17_TallyOfTrimmedLines ==
    Structured => characterMentions = TallyOver(TrimmedLines, <<>>)

\* what the first pass does count: the lines as split, untrimmed
C17_TallyOfRawLines ==
    Structured => characterMentions = TallyOver(rawLines, <<>>)

----------------------------------------------------------------------------
(* The speaker line step.                                                  *)

\* line starts with name immediately followed by ':'
StartsWithCue(line, name) ==
    /\ Len(line) > Len(name)
    /\ SubSeq(line, 1, Len(name)) = name
    /\ line[Len(name) + 1] = ":"

\* what follows the colon, trimmed
CueRemainder(line, name) == trim(SubSeq(line, Len(name) + 2, Len(line)))

\* the walk takes the line after position i
WalkStep == pc = "walk" /\ i < Len(rawLines) /\ i' = i + 1

\* the effect on speaker and scenes of a cue of character c on line
SpeakerLineEffect(line, c) ==
    /\ currentCharacterId' = c.id
    /\ IF Len(CueRemainder(line, c.name)) > 0
          THEN /\ Len(script'.scenes) = Len(script.scenes)
               /\ \A s \in 1..(Len(script.scenes) - 1) :
                     script'.scenes[s] = script.scenes[s]
               /\ LET before == script.scenes[Len(script.scenes)].lines
                      after == script'.scenes[Len(script.scenes)].lines
                  IN  /\ Len(after) = Len(before) + 1
                      /\ SubSeq(after, 1, Len(before)) = before
                      /\ after[Len(after)].characterId = c.id
                      /\ after[Len(after)].text = CueRemainder(line, c.name)
                      /\ ~IsDirection(after[Len(after)])
          ELSE script' = script

(* C18: on a trimmed line that starts with a cataloged name and ':' the    *)
(* walk sets the current speaker to that character and appends exactly one *)
(* Line (its id, the trimmed remainder, not a direction) to the last scene *)
(* when the remainder is not empty, none when it is empty; the earlier     *)
(* Lines stay as they are.                                                 *)
C18_SpeakerLineStep ==
    [][WalkStep =>
          \A k \in 1..Len(script.characters) :
              StartsWithCue(trim(rawLines[i + 1]), script.characters[k].name)
                 => SpeakerLineEffect(trim(rawLines[i + 1]), script.characters[k])]_vars

(* C18, for lines that are not scene or act markers: the marker test comes *)
(* first in the walk.                                                      *)
C18_SpeakerLineStepUnlessMarker ==
    [][(WalkStep /\ ~IsSceneMarker(trim(rawLines[i + 1]))) =>
          \A k \in 1..Len(script.characters) :
              StartsWithCue(trim(rawLines[i + 1]), script.characters[k].name)
                 => SpeakerLineEffect(trim(rawLines[i + 1]), script.characters[k])]_vars

\* two cues of one character in a row, each with a remainder: two Lines
C18_Witness ==
    /\ pc = "walk"
    /\ i = 2
    /\ \E k \in 1..Len(script.characters) :
          /\ \A n \in 1..2 :
                /\ StartsWithCue(trim(rawLines[n]), script.characters[k].name)
                /\ ~IsSceneMarker(trim(rawLines[n]))
                /\ Len(CueRemainder(trim(rawLines[n]), script.characters[k].name)) > 0
          /\ Len(AllLines(script.scenes)) = 2
          /\ currentCharacterId = script.characters[k].id

\* a cue with nothing after the colon has changed the speaker without a Line
C18_WitnessEmptyCue ==
    /\ pc = "walk"
    /\ i = 1
    /\ \E k \in 1..Len(script.characters) :
          /\ StartsWithCue(trim(rawLines[1]), script.characters[k].name)
          /\ Len(CueRemainder(trim(rawLines[1]), script.characters[k].name)) = 0
          /\ currentCharacterId = script.characters[k].id
    /\ AllLines(script.scenes) = <<>>

----------------------------------------------------------------------------
(* New utterance or direction.                                             *)

UtterancePool ==
    { <<>>,
      <<"A","C","T"," ","I">>,
      <<"A","B",":">>,
      <<"o","k">>,
      <<"(","x","y">>,
      <<"(","x",".">>,
      <<"A","B","C","D","E","F","G","H","I","J","K">>,
      <<"A","B","C","D","E","F","G","H","I","J">> }

InitUtterance == \E text \in Texts(UtterancePool, MaxUtteranceLines) : Enter(text)

SpecUtterance == InitUtterance /\ [][Next]_vars

\* length >= 3 and either ends in '.', '!' or '?', or else neither starts
\* with '(' nor is entirely upper case with length > 10
ReadsAsDialogue(line) ==
    /\ Len(line) >= 3
    /\ \/ line[Len(line)] \in {".", "!", "?"}
       \/ /\ line[1] # "("
          /\ ~(EntirelyUpper(line) /\ Len(line) > 10)

\* the line of this step is neither empty, a marker, a cue nor a direction,
\* a speaker is set, and the last scene does not end with a Line of theirs
NewUtteranceCase(line) ==
    /\ WalkStep
    /\ currentCharacterId # NULL
    /\ Len(line) > 0
    /\ ~IsSceneMarker(line)
    /\ \A k \in 1..Len(script.characters) :
          ~StartsWithCue(line, script.characters[k].name)
    /\ ~isSceneDirection(line)
    /\ LET last == script.scenes[Len(script.scenes)].lines
       IN  Len(last) = 0 \/ last[Len(last)].characterId # currentCharacterId

\* one Line with this text, speaker and flag is appended to the last scene
AppendsLine(text, characterId, direction) ==
    /\ Len(script'.scenes) = Len(script.scenes)
    /\ \A s \in 1..(Len(script.scenes) - 1) : script'.scenes[s] = script.scenes[s]
    /\ LET before == script.scenes[Len(script.scenes)].lines
           after == script'.scenes[Len(script.scenes)].lines
       IN  /\ Len(after) = Len(before) + 1
           /\ SubSeq(after, 1, Len(before)) = before
           /\ after[Len(after)].text = text
           /\ after[Len(after)].characterId = characterId
           /\ IsDirection(after[Len(after)]) = direction

(* C19: with a speaker set, on a line that is no marker, cue or stage      *)
(* direction and does not continue a Line of the speaker, the walk appends *)
(* a Line of the current speaker exactly when the line reads as dialogue,  *)
(* and otherwise a Line of character "0" marked as direction.              *)
C19_NewUtteranceOrDirection ==
    [][NewUtteranceCase(trim(rawLines[i + 1])) =>
          IF ReadsAsDialogue(trim(rawLines[i + 1]))
             THEN AppendsLine(trim(rawLines[i + 1]), currentCharacterId, FALSE)
             ELSE AppendsLine(trim(rawLines[i + 1]), "0", TRUE)]_vars

\* after a direction of character "0" the speaker has a new Line: ten
\* upper-case characters are not long
C19_Witness ==
    /\ pc = "walk"
    /\ i >= 3
    /\ currentCharacterId # NULL
    /\ LET all == AllLines(script.scenes)
       IN  /\ Len(all) = 2
           /\ all[1].characterId = "0"
           /\ IsDirection(all[1])
           /\ all[2].characterId = currentCharacterId
           /\ all[2].text = trim(rawLines[i])
           /\ Len(all[2].text) = 10
           /\ EntirelyUpper(all[2].text)

\* a line that opens with '(' and does not end a sentence went to "0"
C19_WitnessDirection ==
    /\ pc = "walk"
    /\ i >= 3
    /\ currentCharacterId # NULL
    /\ LET all == AllLines(script.scenes)
       IN  /\ Len(all) = 1
           /\ all[1].characterId = "0"
           /\ IsDirection(all[1])
           /\ all[1].text = trim(rawLines[i])
           /\ all[1].text[1] = "("

----------------------------------------------------------------------------
(* The tally of one line; lines of a text whose line ends are carriage     *)
(* returns are not split by split('\n').                                   *)

CarriagePool ==
    { <<"A","B",":"," ","a">>,
      <<"A","B",":"," ","a","\r","C","D">>,
      <<"C","D","\r">>,
      <<"A","B",":","\r","A","B">>,
      <<"A","B"," ","(","x",")">> }

InitCarriage == \E text \in Texts(CarriagePool, MaxCarriageLines) : Enter(text)

SpecCarriage == InitCarriage /\ [][NextCatalog]_vars

RECURSIVE TotalMentions(_)
TotalMentions(mentions) ==
    IF Len(mentions) = 0 THEN 0
    ELSE Head(mentions).count + TotalMentions(Tail(mentions))

MentionedNames(mentions) == {mentions[k].name : k \in 1..Len(mentions)}

\* the names whose count the step has raised
RaisedNames ==
    {n \in MentionedNames(characterMentions') :
        MentionCount(characterMentions', n) > MentionCount(characterMentions, n)}

FirstPassStep == pc = "firstPass" /\ fp' = fp + 1

(* C20: one line of the first pass raises the count of at most one name,   *)
(* by at most 1, and the tallies never add up to more than the lines read. *)
C20_OneTallyPerLine ==
    [][FirstPassStep =>
          /\ \A n, o \in RaisedNames : n = o
          /\ \A n \in RaisedNames :
                MentionCount(characterMentions', n)
                   <= MentionCount(characterMentions, n) + 1
          /\ TotalMentions(characterMentions') <= fp']_vars

\* the same for the lines that hold no line terminator
C20_OneTallyPerPlainLine ==
    [][(FirstPassStep /\ \A k \in 1..fp' : Range(rawLines[k]) \cap LineTerminators = {}) =>
          /\ \A n, o \in RaisedNames : n = o
          /\ \A n \in RaisedNames :
                MentionCount(characterMentions', n)
                   <= MentionCount(characterMentions, n) + 1
          /\ TotalMentions(characterMentions') <= fp']_vars

----------------------------------------------------------------------------
(* PdfTextExtraction.detectScriptStructure                                 *)
(* (src/services/pdf-extraction-module.js).                                *)

\* text.match(/^[A-Z][A-Za-z\s]+:/gm): every match from left to right, each
\* search starting where the match before it ended
RECURSIVE matchAll(_, _)
matchAll(text, from) ==
    LET found == exec(1, text, from)
    IN  IF found.ok THEN <<found>> \o matchAll(text, found.end) ELSE <<>>

\* Set.add: a value already in the set keeps its place
SetAdd(set, value) ==
    IF \E k \in 1..Len(set) : set[k] = value THEN set ELSE Append(set, value)

\* for (const match of characterMatches) characters.add(match.slice(0, -1).trim())
RECURSIVE CollectCharacters(_, _)
CollectCharacters(characterMatches, characters) ==
    IF Len(characterMatches) = 0 THEN characters
    ELSE CollectCharacters(Tail(characterMatches),
                           SetAdd(characters, trim(Head(characterMatches).cap)))

MinDialogueLines == 3

MinCharacters == 2

detectScriptStructure(text) ==
    LET characterMatches == matchAll(text, 0)
        characters == CollectCharacters(characterMatches, <<>>)
    IN  [isLikelyScript |->
             Len(characterMatches) > MinDialogueLines /\ Len(characters) >= MinCharacters,
         characterCount |-> Len(characters),
         characterNames |-> characters,
         dialogueLines |-> Len(characterMatches)]

DetectPool ==
    { <<"A","B",":"," ","x",".">>,
      <<"C","D",":"," ","y",".">>,
      <<"E"," ","F",":">>,
      <<"A","b"," ","c">> }

InitDetect ==
    /\ \E text \in Texts(DetectPool, MaxDetectLines) :
          extractedText = JoinLines(text)
    /\ detected = <<>>
    /\ IdleEngine
    /\ IdleReader
    /\ IdleParser
    /\ IdleClient
    /\ IdlePdf

\* the call detectScriptStructure(extractedText)
DetectScriptStructure ==
    /\ detected = <<>>
    /\ detected' = <<detectScriptStructure(extractedText)>>
    /\ UNCHANGED <<extractedText, engineVars, readerVars,
                   parserVars, clientVars, pdfVars>>

NextDetect == DetectScriptStructure

SpecDetect == InitDetect /\ [][NextDetect]_vars

\* the lines of a text, cut at '\n'
RECURSIVE SplitLines(_)
SplitLines(text) ==
    IF \A k \in 1..Len(text) : text[k] # "\n" THEN <<text>>
    ELSE LET cut == CHOOSE k \in 1..Len(text) :
                       text[k] = "\n" /\ \A m \in 1..(k - 1) : text[m] # "\n"
         IN  <<SubSeq(text, 1, cut - 1)>> \o SplitLines(SubSeq(text, cut + 1, Len(text)))

\* the line, taken alone, starts with NAME:
LineHasName(line) == StandardAt(line, 1).ok

NameLines(text) == SelectSeq(SplitLines(text), LineHasName)

NamesOfLines(text) ==
    {trim(StandardAt(NameLines(text)[k], 1).cap) : k \in 1..Len(NameLines(text))}

(* C14: the dialogue-line count is the number of lines of the text that    *)
(* match NAME: at their start, characterNames are the distinct trimmed     *)
(* names of exactly those lines, characterCount is their number, and       *)
(* isLikelyScript holds exactly when the count is > 3 with >= 2 names.     *)
C14_CountsMatchingLines ==
    detected # <<>> =>
        /\ detected[1].dialogueLines = Len(NameLines(extractedText))
        /\ Range(detected[1].characterNames) = NamesOfLines(extractedText)
        /\ detected[1].characterCount = Cardinality(NamesOfLines(extractedText))
        /\ detected[1].isLikelyScript =
              (Len(NameLines(extractedText)) > 3
                  /\ Cardinality(NamesOfLines(extractedText)) >= 2)

\* the same when every line of the text starts with NAME: taken alone
C14_OnNameLinesOnly ==
    (detected # <<>> /\ Len(NameLines(extractedText)) = Len(SplitLines(extractedText))) =>
        /\ detected[1].dialogueLines = Len(NameLines(extractedText))
        /\ Range(detected[1].characterNames) = NamesOfLines(extractedText)
        /\ detected[1].characterCount = Cardinality(NamesOfLines(extractedText))
        /\ detected[1].isLikelyScript =
              (Len(NameLines(extractedText)) > 3
                  /\ Cardinality(NamesOfLines(extractedText)) >= 2)

----------------------------------------------------------------------------
(* ScriptReader (src/components/ScriptReader/ScriptReader.tsx) and the     *)
(* TtsService it drives (src/services/tts.service.ts).                     *)
(*                                                                         *)
(* A render, the handlers it creates and the effect that follows it are    *)
(* one step.  A handler or callback closes over the currentLineIndex of    *)
(* the render that created it; the queue, the engine and the timers keep   *)
(* that captured index.                                                    *)

TtsState == [isSpeaking |-> isSpeaking, queue |-> queue, speech |-> speech]

SetTts(tts) ==
    /\ isSpeaking' = tts.isSpeaking
    /\ queue' = tts.queue
    /\ speech' = tts.speech

\* a speak that hands every text to the engine at once
speakWithoutQueue(tts, item) ==
    [tts EXCEPT !.isSpeaking = TRUE, !.speech = Append(@, item)]

\* TtsService.speak: enqueue while speaking, else hand the text to the engine
speak(tts, item) ==
    IF tts.isSpeaking
       THEN [tts EXCEPT !.queue = Append(@, item)]
       ELSE [tts EXCEPT !.isSpeaking = TRUE, !.speech = Append(@, item)]

\* TtsService.stop: Speech.stop(), queue = [], isSpeaking = false
stop(tts) == [isSpeaking |-> FALSE, queue |-> <<>>, speech |-> <<>>]

\* if (this.queue.length > 0) { next = this.queue.shift(); this.speak(next...) }
ProcessQueue(tts) ==
    IF Len(tts.queue) > 0
       THEN speak([tts EXCEPT !.queue = Tail(@)], Head(tts.queue))
       ELSE tts

\* currentLine.characterId === userCharacterId
IsUserLine(index) == index < Len(readerLines) /\ readerLines[index + 1]

\* script.scenes[0].lines[currentLineIndex] is undefined and its fields are
\* read: by the render when playing, and by the effect
Throws(index, playing) == playing /\ index >= Len(readerLines)

\* the effect of a render with these values of currentLineIndex and isPlaying
ProcessCurrentLine(index, playing, tts) ==
    IF playing /\ index < Len(readerLines) /\ ~readerLines[index + 1]
       THEN speak(tts, index)
       ELSE tts

\* advanceLine of the render whose currentLineIndex was captured, followed
\* by the render and the effect its state update brings
advanceLine(captured, tts) ==
    IF captured + 1 < Len(readerLines)
       THEN /\ currentLineIndex' = currentLineIndex + 1
            /\ UNCHANGED isPlaying
            /\ crashed' = Throws(currentLineIndex + 1, isPlaying)
            /\ SetTts(IF Throws(currentLineIndex + 1, isPlaying)
                         THEN tts
                         ELSE ProcessCurrentLine(currentLineIndex + 1, isPlaying, tts))
       ELSE /\ isPlaying' = FALSE
            /\ UNCHANGED <<currentLineIndex, crashed>>
            /\ SetTts(tts)

ReaderScripts == UNION {[1..n -> BOOLEAN] : n \in 1..MaxReaderLines}

InitReader ==
    /\ readerLines \in ReaderScripts
    /\ currentLineIndex = 0
    /\ isPlaying = FALSE
    /\ isSpeaking = FALSE
    /\ queue = <<>>
    /\ speech = <<>>
    /\ timers = <<>>
    /\ presses = 0
    /\ crashed = FALSE
    /\ IdleEngine
    /\ IdleDetect
    /\ IdleParser
    /\ IdleClient
    /\ IdlePdf

\* togglePlayback, the 'Pausa' / 'Riprendi' button
TogglePlayback ==
    /\ ~crashed
    /\ presses < MaxPresses
    /\ presses' = presses + 1
    /\ IF isPlaying
          THEN /\ SetTts(stop(TtsState))
               /\ isPlaying' = FALSE
               /\ UNCHANGED crashed
          ELSE /\ isPlaying' = TRUE
               /\ crashed' = Throws(currentLineIndex, TRUE)
               /\ SetTts(IF Throws(currentLineIndex, TRUE)
                            THEN TtsState
                            ELSE ProcessCurrentLine(currentLineIndex, TRUE, TtsState))
    /\ UNCHANGED <<readerLines, currentLineIndex, timers, engineVars, detectVars,
                   parserVars, clientVars, pdfVars>>

\* the 'Prossima Battuta' button, shown while playing on a line of the user
ManualAdvance ==
    /\ ~crashed
    /\ isPlaying
    /\ IsUserLine(currentLineIndex)
    /\ advanceLine(currentLineIndex, TtsState)
    /\ UNCHANGED <<readerLines, timers, presses, engineVars, detectVars,
                   parserVars, clientVars, pdfVars>>

\* the engine ends the utterance: onDone of Speech.speak
UtteranceDone ==
    /\ ~crashed
    /\ Len(speech) > 0
    /\ timers' = Append(timers, Head(speech))
    /\ SetTts(ProcessQueue([TtsState EXCEPT !.isSpeaking = FALSE,
                                            !.speech = Tail(@)]))
    /\ UNCHANGED <<readerLines, currentLineIndex, isPlaying, presses, crashed,
                   engineVars, detectVars,
                   parserVars, clientVars, pdfVars>>

\* the engine fails the utterance: onError of Speech.speak, the caller's
\* onDone is not called
UtteranceError ==
    /\ ~crashed
    /\ Len(speech) > 0
    /\ SetTts(ProcessQueue([TtsState EXCEPT !.isSpeaking = FALSE,
                                            !.speech = Tail(@)]))
    /\ UNCHANGED <<readerLines, currentLineIndex, isPlaying, timers, presses,
                   crashed, engineVars, detectVars,
                   parserVars, clientVars, pdfVars>>

\* a setTimeout(..., 1000) callback runs; equal delays run in creation order
TimerFire ==
    /\ ~crashed
    /\ Len(timers) > 0
    /\ timers' = Tail(timers)
    /\ advanceLine(Head(timers), TtsState)
    /\ UNCHANGED <<readerLines, presses, engineVars, detectVars,
                   parserVars, clientVars, pdfVars>>

NextReader ==
    \/ TogglePlayback
    \/ ManualAdvance
    \/ UtteranceDone
    \/ UtteranceError
    \/ TimerFire

SpecReader == InitReader /\ [][NextReader]_vars

\* no line of the user is with the engine or in the queue
UserLineNotSpoken ==
    /\ \A k \in 1..Len(speech) : ~IsUserLine(speech[k])
    /\ \A k \in 1..Len(queue) : ~IsUserLine(queue[k])

(* C16: while playback stands on a line of the user's character, no line   *)
(* of theirs is given to text-to-speech and currentLineIndex changes only  *)
(* by the 'Prossima Battuta' button, whatever the order of completions,    *)
(* timers and pause/resume presses.                                        *)
C16_UserLineWaitsForUser ==
    /\ []UserLineNotSpoken
    /\ [][(isPlaying /\ IsUserLine(currentLineIndex)
              /\ currentLineIndex' # currentLineIndex) => ManualAdvance]_vars

\* the half of C16 that holds: the effect never speaks a line of the user
C16_UserLineNeverSpoken == UserLineNotSpoken

----------------------------------------------------------------------------
(* What a scene marker leaves alone.                                       *)

MarkerPool ==
    { <<>>,
      <<"A","B",":"," ","a",".">>,
      <<"A","C","T"," ","I">>,
      <<"o","k">>,
      <<"y","e","s",".">> }

InitMarker == \E text \in Texts(MarkerPool, MaxMarkerLines) : Enter(text)

SpecMarker == InitMarker /\ [][Next]_vars

IsMarkerAt(k) == IsSceneMarker(trim(rawLines[k]))

\* the scene (1-based) that raw line k falls into
SceneOfRaw(k) == 1 + Cardinality({m \in 1..k : IsMarkerAt(m)})

RECURSIVE JoinWithSpaces(_)
JoinWithSpaces(parts) ==
    IF Len(parts) = 0 THEN <<>>
    ELSE IF Len(parts) = 1 THEN parts[1]
    ELSE parts[1] \o <<" ">> \o JoinWithSpaces(Tail(parts))

\* what raw line k can open a Line with: itself trimmed, or what follows
\* the colon of a cataloged name
OpeningsOf(k) ==
    {trim(rawLines[k])}
        \cup {CueRemainder(trim(rawLines[k]), n) :
                 n \in {c \in CharacterNames : StartsWithCue(trim(rawLines[k]), c)}}

\* the raw lines of the set picked, trimmed, in the order of the input
TrimmedPicked(picked) ==
    LET at == SelectSeq([k \in 1..Len(rawLines) |-> k], LAMBDA k : k \in picked)
    IN  [n \in 1..Len(at) |-> trim(rawLines[at[n]])]

\* the raw lines read so far that fall into scene s, markers left out
SegmentOf(s) == {k \in 1..i : SceneOfRaw(k) = s /\ ~IsMarkerAt(k)}

\* the texts that raw line k1 and later lines of its scene can make up
TextsOfRun(k1, s) ==
    {JoinWithSpaces(<<first>> \o TrimmedPicked(picked)) :
        first \in OpeningsOf(k1),
        picked \in SUBSET {k \in SegmentOf(s) : k > k1}}

\* every Line's text comes from raw lines of its own scene: no marker lies
\* between the lines it is made of
TextWithinOneScene ==
    Structured =>
        \A s \in 1..Len(script.scenes) :
            \A n \in 1..Len(script.scenes[s].lines) :
                \E k1 \in SegmentOf(s) :
                    script.scenes[s].lines[n].text \in TextsOfRun(k1, s)

\* since the last marker only empty lines and stage directions were read
JustAfterMarker ==
    \E m \in 1..i :
        /\ IsMarkerAt(m)
        /\ \A k \in (m + 1)..i :
              \/ Len(trim(rawLines[k])) = 0
              \/ /\ isSceneDirection(trim(rawLines[k]))
                 /\ \A c \in CharacterNames : ~StartsWithCue(trim(rawLines[k]), c)

\* the line of this step is neither empty, a marker, a cue nor a direction
PlainLineStep(line) ==
    /\ WalkStep
    /\ Len(line) > 0
    /\ ~IsSceneMarker(line)
    /\ \A c \in CharacterNames : ~StartsWithCue(line, c)
    /\ ~isSceneDirection(line)

(* C21: a scene marker leaves the current speaker and the line counter as  *)
(* they are; the first plain line after it becomes a new Line of the new   *)
(* scene, of the speaker carried over the marker when it reads as dialogue *)
(* and of "0" otherwise (and of "0" when no speaker was set); no Line's    *)
(* text is made of lines from both sides of a marker.                      *)
C21_MarkerKeepsSpeaker ==
    /\ []TextWithinOneScene
    /\ [][(WalkStep /\ IsSceneMarker(trim(rawLines[i + 1]))) =>
             /\ currentCharacterId' = currentCharacterId
             /\ lineCounter' = lineCounter
             /\ AllLines(script'.scenes) = AllLines(script.scenes)]_vars
    /\ [][(PlainLineStep(trim(rawLines[i + 1])) /\ JustAfterMarker) =>
             IF currentCharacterId # NULL /\ ReadsAsDialogue(trim(rawLines[i + 1]))
                THEN AppendsLine(trim(rawLines[i + 1]), currentCharacterId, FALSE)
                ELSE AppendsLine(trim(rawLines[i + 1]), "0", TRUE)]_vars

\* the speaker of the first scene speaks the first Line of the second
C21_Witness ==
    /\ pc = "walk"
    /\ i >= 4
    /\ IsMarkerAt(i - 1)
    /\ Len(script.scenes) = 2
    /\ Len(script.scenes[1].lines) >= 1
    /\ Len(script.scenes[2].lines) = 1
    /\ currentCharacterId # NULL
    /\ script.scenes[2].lines[1].characterId = currentCharacterId
    /\ script.scenes[2].lines[1].text = trim(rawLines[i])
    /\ script.scenes[1].lines[Len(script.scenes[1].lines)].characterId
          = currentCharacterId

----------------------------------------------------------------------------
(* The lines the catalog counts and the lines the walk takes as cues.      *)

AgreePool ==
    { <<>>,
      <<"A","B"," ",":"," ","b">>,
      <<"A","B",":"," ","a",".">>,
      <<"A","C","T"," ","I",":"," ","a">>,
      <<"o","k">> }

InitAgree == \E text \in Texts(AgreePool, MaxAgreeLines) : Enter(text)

SpecAgree == InitAgree /\ [][Next]_vars

\* the first pattern counts the raw line for a name kept in the catalog
CountedFor(line, c) ==
    /\ StandardAt(line, 1).ok
    /\ trim(StandardAt(line, 1).cap) = c.name

\* what follows the colon that ended the first pattern's match, trimmed
AfterColon(line) ==
    trim(SubSeq(line, StandardAt(line, 1).end + 1, Len(line)))

\* the step makes c the speaker and gives them the text after the colon
TakenAsCueOf(line, c) ==
    /\ currentCharacterId' = c.id
    /\ Len(AfterColon(line)) > 0 => AppendsLine(AfterColon(line), c.id, FALSE)
    /\ Len(AfterColon(line)) = 0 => script' = script

(* C22: every line the catalog counted under NAME: for a name kept in the  *)
(* catalog is a speaker line of that name for the walk: the name becomes   *)
(* the current speaker and the text after the colon is theirs, also when   *)
(* whitespace stands between the name and the colon.                       *)
C22_CountedLinesAreCues ==
    [][WalkStep =>
          \A k \in 1..Len(script.characters) :
              CountedFor(rawLines[i + 1], script.characters[k])
                 => TakenAsCueOf(rawLines[i + 1], script.characters[k])]_vars

\* the same for lines whose name touches the colon and that are no markers
C22_TightCountedLinesAreCues ==
    [][(WalkStep /\ ~IsSceneMarker(trim(rawLines[i + 1]))) =>
          \A k \in 1..Len(script.characters) :
              (/\ CountedFor(rawLines[i + 1], script.characters[k])
               /\ StandardAt(rawLines[i + 1], 1).cap = script.characters[k].name)
                 => TakenAsCueOf(rawLines[i + 1], script.characters[k])]_vars

----------------------------------------------------------------------------
(* Names that are prefixes of one another.                                 *)

PrefixPool ==
    { <<>>,
      <<"A","N",":"," ","a",".">>,
      <<"A","N","N",":"," ","b">>,
      <<"A","N","N">>,
      <<"A","C","T"," ","I">>,
      <<"o","k">> }

InitPrefix == \E text \in Texts(PrefixPool, MaxPrefixLines) : Enter(text)

SpecPrefix == InitPrefix /\ [][Next]_vars

\* the catalog entries whose name, followed by ':', opens the line
CuesOf(line) ==
    {n \in 1..Len(characterMap) : StartsWithCue(line, characterMap[n].name)}

(* C23: for every line at most one cataloged name opens it followed by     *)
(* ':', and that one is the name the walk finds, so the order in which the *)
(* catalog is gone through does not change the Script.                     *)
C23_OneNamePerLine ==
    Structured =>
        \A k \in 1..Len(rawLines) :
            /\ Cardinality(CuesOf(trim(rawLines[k]))) <= 1
            /\ \A n \in CuesOf(trim(rawLines[k])) :
                  MatchCharacter(characterMap, trim(rawLines[k])) = n
            /\ CuesOf(trim(rawLines[k])) = {}
                  => MatchCharacter(characterMap, trim(rawLines[k])) = 0

\* two names kept, the first a proper prefix of the second, and a Line of
\* the second in the returned Script
C23_Witness ==
    /\ pc = "done"
    /\ \E a, b \in 1..Len(characterMap) :
          /\ a < b
          /\ Len(characterMap[a].name) < Len(characterMap[b].name)
          /\ startsWith(characterMap[b].name, characterMap[a].name)
          /\ \E l \in Range(AllLines(script.scenes)) :
                l.characterId = characterMap[b].character.id

----------------------------------------------------------------------------
(* parseScript (src/services/script.service.ts), the parser of the home    *)
(* screen.                                                                 *)
(*                                                                         *)
(* currentCharacter is a name or null; a name is never empty, so the empty *)
(* string stands for null here (both are falsy in the test of the loop).   *)

\* String.indexOf(c), 0-based, -1 when absent: the value plus one
IndexOfPlusOne(s, c) ==
    IF c \in Range(s)
       THEN CHOOSE k \in 1..Len(s) : s[k] = c /\ \A m \in 1..(k - 1) : s[m] # c
       ELSE 0

\* textLine.match(/^([A-Za-z\s]+):/)
CharacterMatch(textLine) ==
    LET e == RunEnd(textLine, 1, NameClass)
    IN  IF e > 1 /\ e <= Len(textLine) /\ textLine[e] = ":"
           THEN [ok |-> TRUE, cap |-> SubSeq(textLine, 1, e - 1), end |-> e]
           ELSE NoMatch

\* rawText.split('\n').map(line => line.trim()).filter(line => line.length > 0)
TextLines(lines) ==
    SelectSeq([k \in 1..Len(lines) |-> trim(lines[k])], LAMBDA l : Len(l) > 0)

\* index in characterMap of the entry of this name, 0 when it has none
MapIndex(map, name) ==
    IF \E k \in 1..Len(map) : map[k].name = name
       THEN CHOOSE k \in 1..Len(map) : map[k].name = name
       ELSE 0

\* parseScript up to the forEach: the title is the first line without ':'
StartParse(lines) ==
    LET textLines == TextLines(lines)
        titled == Len(textLines) > 0 /\ ~includes(textLines[1], ":")
    IN  [outcome |-> "running",
         textLines |-> IF titled THEN Tail(textLines) ELSE textLines,
         at |-> 0,
         script |-> [title |-> IF titled THEN textLines[1] ELSE <<>>,
                     characters |-> <<>>,
                     lines |-> <<>>],
         characterMap |-> <<>>,
         currentCharacter |-> <<>>,
         lineCounter |-> 0]

\* the branch of a line that matches the speaker pattern
SpeakerBranch(run, textLine, match) ==
    LET name == trim(match.cap)
        known == MapIndex(run.characterMap, name) # 0
        newCharacter == [id |-> toString(Len(run.characterMap) + 1), name |-> name]
        map == IF known THEN run.characterMap
                        ELSE Append(run.characterMap, newCharacter)
        dialogText == trim(substring(textLine, IndexOfPlusOne(textLine, ":")))
        line == [id |-> toString(run.lineCounter + 1),
                 characterId |-> map[MapIndex(map, name)].id,
                 text |-> dialogText,
                 sceneId |-> "1",
                 isDirection |-> FALSE]
    IN  [run EXCEPT
            !.currentCharacter = name,
            !.characterMap = map,
            !.script.characters = IF known THEN @ ELSE Append(@, newCharacter),
            !.script.lines = IF Len(dialogText) > 0 THEN Append(@, line) ELSE @,
            !.lineCounter = IF Len(dialogText) > 0 THEN @ + 1 ELSE @]

\* previousLine.text += ' ' + textLine; previousLine is undefined when no
\* Line has been pushed, and reading its text throws a TypeError
ContinuationBranch(run, textLine) ==
    IF Len(run.script.lines) = 0
       THEN [run EXCEPT !.outcome = "thrown"]
       ELSE [run EXCEPT !.script.lines[Len(run.script.lines)].text =
                            @ \o <<" ">> \o textLine]

DirectionBranch(run, textLine) ==
    [run EXCEPT
        !.script.lines = Append(@, [id |-> toString(run.lineCounter + 1),
                                    characterId |-> "0",
                                    text |-> textLine,
                                    sceneId |-> "1",
                                    isDirection |-> TRUE]),
        !.lineCounter = @ + 1]

\* one turn of textLines.forEach
ParseLine(run) ==
    LET textLine == run.textLines[run.at + 1]
        characterMatch == CharacterMatch(textLine)
        next == [run EXCEPT !.at = @ + 1]
    IN  IF characterMatch.ok THEN SpeakerBranch(next, textLine, characterMatch)
        ELSE IF run.currentCharacter # <<>> /\ Len(textLine) > 0
                THEN ContinuationBranch(next, textLine)
        ELSE IF Len(textLine) > 0 THEN DirectionBranch(next, textLine)
        ELSE next

ParsePool ==
    { <<>>,
      <<"A","B",":">>,
      <<"A","B",":"," ","a">>,
      <<"C"," ","D",":","b"," ">>,
      <<"C"," ","D"," ",":">>,
      <<" ","o","k">> }

InitParse ==
    /\ \E text \in Texts(ParsePool, MaxParseLines) : parseRun = StartParse(text)
    /\ IdleEngine
    /\ IdleDetect
    /\ IdleReader
    /\ IdleClient
    /\ IdlePdf

ParseScriptLine ==
    /\ parseRun.outcome = "running"
    /\ parseRun.at < Len(parseRun.textLines)
    /\ parseRun' = ParseLine(parseRun)
    /\ UNCHANGED <<engineVars, detectVars, readerVars, clientVars, pdfVars>>

\* return script
ParseScriptReturn ==
    /\ parseRun.outcome = "running"
    /\ parseRun.at = Len(parseRun.textLines)
    /\ parseRun' = [parseRun EXCEPT !.outcome = "returned"]
    /\ UNCHANGED <<engineVars, detectVars, readerVars, clientVars, pdfVars>>

NextParse ==
    \/ ParseScriptLine
    \/ ParseScriptReturn

SpecParse == InitParse /\ [][NextParse]_vars

(* C24: parseScript never throws, whatever the string: also an input whose *)
(* first speaker line has nothing after the colon and is followed by a     *)
(* line that is no speaker line, with no Line emitted before it, ends with *)
(* a Script returned.                                                      *)
C24_ParseScriptNeverThrows == parseRun.outcome # "thrown"

\* the line of this turn is no speaker line and a speaker has been set
IsContinuation(run) ==
    /\ run.outcome = "running"
    /\ run.at < Len(run.textLines)
    /\ ~CharacterMatch(run.textLines[run.at + 1]).ok
    /\ run.currentCharacter # <<>>

\* the id of the current speaker
SpeakerId(run) == run.characterMap[MapIndex(run.characterMap, run.currentCharacter)].id

(* C25: a line that is no speaker line, read once a speaker is set, adds   *)
(* its text only to a Line whose characterId is the id of the current      *)
(* speaker: never to a direction Line ("0"), never to a Line of another    *)
(* character.                                                              *)
C25_ContinuationGoesToSpeaker ==
    [][(ParseScriptLine /\ IsContinuation(parseRun)) =>
          \A n \in 1..Len(parseRun.script.lines) :
              parseRun'.script.lines[n].text # parseRun.script.lines[n].text
                 => parseRun.script.lines[n].characterId = SpeakerId(parseRun)]_vars

----------------------------------------------------------------------------
(* TtsService under any client.                                            *)
(*                                                                         *)
(* A request is one call of ttsService.speak; requests are numbered in     *)
(* call order and the queue and the engine hold the number.  The onDone a  *)
(* caller passes may call speak again, up to two times here.               *)

\* the utterances Speech.speak was given between two states of the service
Started(log, before, after) ==
    log \o SubSeq(after.speech, Len(before.speech) + 1, Len(after.speech))

\* n calls of speak in a row, for requests first, first + 1, ...
RECURSIVE SpeakCalls(_, _, _)
SpeakCalls(tts, first, n) ==
    IF n = 0 THEN tts
    ELSE SpeakCalls(speak(tts, first), first + 1, n - 1)

InitClient ==
    /\ IdleClient
    /\ IdleReader
    /\ IdleEngine
    /\ IdleDetect
    /\ IdleParser
    /\ IdlePdf

\* a client calls ttsService.speak(text, options, onDone)
Speak ==
    /\ Len(requested) < MaxRequests
    /\ requested' = Append(requested, "caller")
    /\ started' = Started(started, TtsState, speak(TtsState, Len(requested) + 1))
    /\ SetTts(speak(TtsState, Len(requested) + 1))
    /\ UNCHANGED <<completed, readerLines, currentLineIndex, isPlaying, timers,
                   presses, crashed, engineVars, detectVars, parserVars, pdfVars>>

\* a client calls ttsService.stop()
Stop ==
    /\ SetTts(stop(TtsState))
    /\ UNCHANGED <<clientVars, readerLines, currentLineIndex, isPlaying, timers,
                   presses, crashed, engineVars, detectVars, parserVars, pdfVars>>

\* onDone of Speech.speak: isSpeaking = false, the caller's onDone (which
\* makes n speak calls), then the next item of the queue
EngineDone ==
    /\ Len(speech) > 0
    /\ \E n \in 0..MaxCallbackCalls :
          /\ Len(requested) + n <= MaxRequests
          /\ LET ended == [TtsState EXCEPT !.isSpeaking = FALSE, !.speech = Tail(@)]
                 called == SpeakCalls(ended, Len(requested) + 1, n)
                 after == ProcessQueue(called)
             IN  /\ requested' = requested \o [k \in 1..n |-> "onDone"]
                 /\ completed' = Append(completed, Head(speech))
                 /\ started' = Started(started, ended, after)
                 /\ SetTts(after)
    /\ UNCHANGED <<readerLines, currentLineIndex, isPlaying, timers, presses,
                   crashed, engineVars, detectVars, parserVars, pdfVars>>

\* onError of Speech.speak: isSpeaking = false, then the next item of the
\* queue; the caller's onDone is not called
EngineError ==
    /\ Len(speech) > 0
    /\ LET ended == [TtsState EXCEPT !.isSpeaking = FALSE, !.speech = Tail(@)]
       IN  /\ started' = Started(started, ended, ProcessQueue(ended))
           /\ SetTts(ProcessQueue(ended))
    /\ UNCHANGED <<requested, completed, readerLines, currentLineIndex, isPlaying,
                   timers, presses, crashed, engineVars, detectVars, parserVars,
                   pdfVars>>

NextClient ==
    \/ Speak
    \/ Stop
    \/ EngineDone
    \/ EngineError

SpecClient == InitClient /\ [][NextClient]_vars

Increasing(s) == \A a, b \in 1..Len(s) : a < b => s[a] < s[b]

(* C26: the texts reach the speech engine in the order of the speak calls, *)
(* calls made inside an onDone callback included; no queued item is        *)
(* overtaken by a later request or put back at the end of the queue.       *)
C26_SpokenInRequestOrder ==
    /\ Increasing(started)
    /\ Increasing(queue)

\* an utterance is with the engine and has not ended
InFlight == Len(speech) > 0

(* C27: at most one utterance is with the engine and not ended; isSpeaking *)
(* is true whenever one is; a speak call made while one is in flight only  *)
(* puts the request in the queue.                                          *)
C27_OneUtteranceInFlight ==
    /\ [](Len(speech) <= 1)
    /\ [](InFlight => isSpeaking)
    /\ [][(Speak /\ InFlight) =>
             /\ speech' = speech
             /\ started' = started
             /\ queue' = Append(queue, Len(requested) + 1)]_vars

\* a request waits in the queue behind the utterance in flight, after a
\* call made from inside onDone and an utterance that ended without onDone
C27_Witness ==
    /\ InFlight
    /\ isSpeaking
    /\ Len(queue) >= 1
    /\ \E k \in 1..Len(requested) : requested[k] = "onDone"
    /\ Len(started) > Len(completed) + 1

----------------------------------------------------------------------------
(* Completion of requests when stop is never called.                       *)

NextClientNoStop ==
    \/ Speak
    \/ EngineDone
    \/ EngineError

\* the engine ends every utterance it was given, with onDone or onError
EngineEnds == EngineDone \/ EngineError

SpecCompletion ==
    InitClient /\ [][NextClientNoStop]_vars /\ WF_vars(EngineEnds)

\* the number of times onDone of this request was invoked
TimesCompleted(id) == Cardinality({k \in 1..Len(completed) : completed[k] = id})

(* C28: when stop is never called and the engine ends every utterance,     *)
(* every speak request, started at once or queued, has its text given to   *)
(* the engine and its onDone invoked exactly once in the end, also when    *)
(* the utterance ends with an engine error.                                *)
C28_EveryRequestCompletes ==
    /\ \A id \in 1..MaxRequests :
          (Len(requested) >= id) ~>
              (\E k \in 1..Len(started) : started[k] = id) /\ TimesCompleted(id) = 1
    /\ [](\A id \in 1..MaxRequests : TimesCompleted(id) <= 1)

\* the parts of C28 that hold: every request reaches the engine, and no
\* onDone is invoked twice
C28_EveryRequestStarts ==
    /\ \A id \in 1..MaxRequests :
          (Len(requested) >= id) ~> (\E k \in 1..Len(started) : started[k] = id)
    /\ [](\A id \in 1..MaxRequests : TimesCompleted(id) <= 1)

----------------------------------------------------------------------------
(* The range of currentLineIndex.                                          *)

(* C29: currentLineIndex stays below the number of lines of the scene      *)
(* whenever the current line is read, so no render or effect reads a Line  *)
(* that does not exist, and it moves by exactly 1 at a time, whatever the  *)
(* order of completions, advance timers, pause/resume presses and manual   *)
(* advances.                                                               *)
C29_IndexWithinLines ==
    /\ [](currentLineIndex < Len(readerLines))
    /\ [](~crashed)
    /\ [][currentLineIndex' # currentLineIndex
             => currentLineIndex' = currentLineIndex + 1]_vars

\* the part of C29 that holds: the index moves by one at a time
C29_StepsOfOne ==
    [][currentLineIndex' # currentLineIndex
          => currentLineIndex' = currentLineIndex + 1]_vars

----------------------------------------------------------------------------
(* PdfExtractionEngine.extractTextFromPdf                                  *)
(* (src/services/pdf-extraction.engine.ts).                                *)
(*                                                                         *)
(* A document is a sequence of pages, a page the sequence of the items of  *)
(* its getTextContent(): a text item has str and y (transform[5]), other   *)
(* items have no str.  The engine is initialized and the document loads;   *)
(* the returned text (postProcessExtractedText, which changes neither the  *)
(* names nor the structure flags) is not part of the result kept here.     *)

\* line.split(':')[1]: what stands between the first and the second colon
SecondPart(line) ==
    LET rest == substring(line, IndexOfPlusOne(line, ":"))
    IN  IF includes(rest, ":")
           THEN SubSeq(rest, 1, IndexOfPlusOne(rest, ":") - 1)
           ELSE rest

\* line.includes(':') && line.split(':')[1].trim().length > 0
HasTextAfterColon(line) ==
    includes(line, ":") /\ Len(trim(SecondPart(line))) > 0

\* analyzeLineForScriptPatterns: the names and the flags after the call
analyzeLineForScriptPatterns(line, characterNames, scriptStructure) ==
    LET characterMatch == StandardAt(line, 1)
    IN  [characterNames |->
             IF characterMatch.ok
                THEN SetAdd(characterNames, trim(characterMatch.cap))
                ELSE characterNames,
         scriptStructure |->
             [hasCharacterNames |->
                  scriptStructure.hasCharacterNames \/ characterMatch.ok,
              hasDialogue |->
                  scriptStructure.hasDialogue \/ HasTextAfterColon(line),
              hasSceneMarkers |->
                  scriptStructure.hasSceneMarkers \/ IsSceneMarker(trim(line))]]

\* Math.abs(a - b)
AbsDiff(a, b) == IF a >= b THEN a - b ELSE b - a

NoLastY == -1

LineChangeGap == 2

ItemPool ==
    { [str |-> <<"A","B">>, y |-> 10],
      [str |-> <<":"," ","a">>, y |-> 11],
      [str |-> <<"C","D",":"," ","b">>, y |-> 20],
      [str |-> <<"o","k">>, y |-> 30],
      [type |-> "beginMarkedContent"] }

PagesOf(n) == [1..n -> ItemPool]

\* documents of one or two pages with at most MaxPdfItems items in all
Documents ==
    UNION { {<<page>> : page \in PagesOf(a)} : a \in 0..MaxPdfItems }
        \cup UNION { UNION { {<<first, second>> : first \in PagesOf(a),
                                                  second \in PagesOf(b)} :
                                b \in 0..(MaxPdfItems - a) } :
                        a \in 0..MaxPdfItems }

\* let pageText = '', lastY = -1, currentLine = ''
StartPage(run) ==
    [run EXCEPT !.item = 0, !.pageText = <<>>, !.lastY = NoLastY,
                !.currentLine = <<>>]

InitPdf ==
    /\ \E pages \in Documents :
          extraction = StartPage([pc |-> "page",
                                  pages |-> pages,
                                  i |-> 1,
                                  item |-> 0,
                                  pageText |-> <<>>,
                                  lastY |-> NoLastY,
                                  currentLine |-> <<>>,
                                  extractedText |-> <<>>,
                                  characterNames |-> <<>>,
                                  scriptStructure |-> [hasDialogue |-> FALSE,
                                                       hasCharacterNames |-> FALSE,
                                                       hasSceneMarkers |-> FALSE],
                                  result |-> <<>>])
    /\ IdleEngine
    /\ IdleDetect
    /\ IdleReader
    /\ IdleParser
    /\ IdleClient

\* the body of 'for (const item of content.items)' for a text item: on a
\* change of y the line is added to pageText, currentLine is emptied, and
\* analyzeLineForScriptPatterns is called with currentLine
TextItemStep(run, item) ==
    LET lineChange == run.lastY # NoLastY /\ AbsDiff(item.y, run.lastY) > LineChangeGap
        pageText == IF lineChange THEN run.pageText \o run.currentLine \o <<"\n">>
                                  ELSE run.pageText
        currentLine == IF lineChange THEN <<>> ELSE run.currentLine
        analyzed == IF lineChange
                       THEN analyzeLineForScriptPatterns(currentLine, run.characterNames,
                                                         run.scriptStructure)
                       ELSE [characterNames |-> run.characterNames,
                             scriptStructure |-> run.scriptStructure]
    IN  [run EXCEPT !.pageText = pageText,
                    !.currentLine = currentLine \o item.str,
                    !.lastY = item.y,
                    !.characterNames = analyzed.characterNames,
                    !.scriptStructure = analyzed.scriptStructure]

\* one item of content.items
PageItem ==
    /\ extraction.pc = "page"
    /\ extraction.item < Len(extraction.pages[extraction.i])
    /\ LET item == extraction.pages[extraction.i][extraction.item + 1]
           next == [extraction EXCEPT !.item = @ + 1]
       IN  extraction' = IF "str" \in DOMAIN item THEN TextItemStep(next, item) ELSE next
    /\ UNCHANGED <<engineVars, detectVars, readerVars, parserVars, clientVars>>

\* after the items of a page: the last line, extractedText += pageText + '\n',
\* then the next page or the return
PageEnd ==
    /\ extraction.pc = "page"
    /\ extraction.item = Len(extraction.pages[extraction.i])
    /\ LET run == extraction
           last == Len(run.currentLine) > 0
           pageText == IF last THEN run.pageText \o run.currentLine \o <<"\n">>
                               ELSE run.pageText
           analyzed == IF last
                          THEN analyzeLineForScriptPatterns(run.currentLine,
                                                            run.characterNames,
                                                            run.scriptStructure)
                          ELSE [characterNames |-> run.characterNames,
                                scriptStructure |-> run.scriptStructure]
           done == [run EXCEPT !.pageText = pageText,
                               !.extractedText = @ \o pageText \o <<"\n">>,
                               !.characterNames = analyzed.characterNames,
                               !.scriptStructure = analyzed.scriptStructure]
       IN  extraction' =
             IF run.i < Len(run.pages)
                THEN StartPage([done EXCEPT !.i = @ + 1])
                ELSE [done EXCEPT
                        !.pc = "returned",
                        !.result = <<[success |-> TRUE,
                                      metadata |->
                                        [pageCount |-> Len(run.pages),
                                         characterCount |-> Len(done.extractedText),
                                         detectedCharacters |-> done.characterNames,
                                         isLikelyScript |->
                                             /\ done.scriptStructure.hasDialogue
                                             /\ done.scriptStructure.hasCharacterNames]]>>]
    /\ UNCHANGED <<engineVars, detectVars, readerVars, parserVars, clientVars>>

NextPdf ==
    \/ PageItem
    \/ PageEnd

SpecPdf == InitPdf /\ [][NextPdf]_vars

\* the lines the pages were put together into: those of extractedText
ReconstructedLines ==
    LET ls == SplitLines(extraction.extractedText)
    IN  {ls[k] : k \in 1..Len(ls)}

(* C30: every completed line of every page is analyzed: in the result,     *)
(* each reconstructed line that opens with NAME: has its name among        *)
(* metadata.detectedCharacters, and isLikelyScript is true whenever some   *)
(* reconstructed line has a name and some line has text after a colon,     *)
(* wherever on the page those lines stand.                                 *)
C30_EveryLineAnalyzed ==
    extraction.pc = "returned" =>
        LET metadata == extraction.result[1].metadata
        IN  /\ \A line \in ReconstructedLines :
                  StandardAt(line, 1).ok =>
                      trim(StandardAt(line, 1).cap) \in Range(metadata.detectedCharacters)
            /\ (/\ \E line \in ReconstructedLines : StandardAt(line, 1).ok
                /\ \E line \in ReconstructedLines : HasTextAfterColon(line))
                  => metadata.isLikelyScript

\* what holds: the last line of each page is analyzed
C30_NamesAreOfReconstructedLines ==
    extraction.pc = "returned" =>
        \A name \in Range(extraction.result[1].metadata.detectedCharacters) :
            \E line \in ReconstructedLines :
                StandardAt(line, 1).ok /\ trim(StandardAt(line, 1).cap) = name

====
